---- MODULE Spec2Model ----
(***************************************************************************)
(* A model of the ImageToParticle editor: the particle extractor and the   *)
(* colour quantizer of utils/particleUtils.ts, and the simulation engine   *)
(* of components/ParticlePreview.tsx.                                      *)
(*                                                                         *)
(* JavaScript strings are sequences of one-character strings, so that      *)
(* formatting a colour and parsing it back are computed, not assumed.      *)
(* An optional value (a field that may be undefined or null) is a set      *)
(* with at most one element: {} is undefined.                              *)
(***************************************************************************)
EXTENDS Integers, Sequences, FiniteSets, TLC

VARIABLES
  \* ---- editor state (app/page.tsx) and the two extraction memos
  imageData,        \* [width, height, pixels]: pixels is the RGBA byte array
  config,           \* the sampling fields of ParticleConfig
  maskData,         \* optional interaction mask (RGBA byte array)
  optionalMasks,    \* sequence of [slug, data]
  particleEdits,    \* sequence of ParticleEdit
  particles,        \* page.tsx's useMemo call of extractParticleData
  particleData,     \* ParticlePreview.tsx's useMemo call of extractParticleData
  \* ---- one call of quantizeColors
  qImage,           \* the pixel byte array handed to quantizeColors
  qClusterCount,    \* its clusterCount argument
  qResult,          \* [state, value]: pending, returned or threw
  \* ---- one particle of the simulation (ParticlePreview.tsx)
  simConfig,        \* the motion fields of ParticleConfig
  particle,         \* [x, y, originX, originY, vx, vy] of particlesRef[0]
  particlesActivated, \* particlesActivatedRef
  springTicks,      \* physics ticks the particle has taken
  \* ---- the mounted preview (ParticlePreview.tsx)
  qualityMode,      \* qualityModeRef: {} is null, else {"circles"} or {"squares"}
  slowFrameCount,   \* slowFrameCountRef
  activityFrameCount, \* activityFrameCountRef
  mouse,            \* mouseRef: [x, y]
  pCount,           \* particlesRef.current.length
  dataCount,        \* particleData.length
  observed,         \* the frames of the measuring window: [active, slow]
  \* ---- the live preview and the exported component, side by side
  simData,          \* the extracted particle list both start from
  liveSim,          \* ParticlePreview: [particles, particlesActivated]
  exportSim,        \* generated ParticleAnimation: [particles, particlesActivated]
  exportTicks,      \* frames both have run
  \* ---- CodeExporter.tsx
  exporterProps,    \* [imageData, config, maskData, optionalMasks, particleEdits]
  exportMode,       \* "inline" or "separate"
  copied,           \* the id of the block copied last, if any
  exporterData,     \* the particleData memo: [state, value]
  exporterMemo,     \* the code memos: [state, componentCode, dataCode]
  exporterCalls,    \* the extractor and generators the last render called
  \* ---- the pointer force on one activated particle
  pointerConfig,    \* the pointer and spring fields of ParticleConfig
  pointerComplete,  \* isAnimationComplete
  pointerMouse,     \* mouseRef: [x, y]
  pointerParticle,  \* [x, y, originX, originY, vx, vy, masked]
  pointerEval,      \* what the pointer block of the last frame evaluated
  pointerTicks,     \* frames run
  \* ---- one call of parseColorToRGB
  rgbColor,         \* [text, channels]: the argument, and its channels if well formed
  rgbResult,        \* [state, value]: pending or returned
  \* ---- the animation loop of one preview instance (with springVars)
  mounted,          \* the component is mounted and its setup effect has run
  rafPending,       \* callbacks requestAnimationFrame holds: [id, gen]
  rafNextId,        \* the id the next requestAnimationFrame returns
  animationRef,     \* animationRef.current
  effectGen,        \* how many times the setup effect has run
  adaptiveSkip,     \* adaptiveSkipRef.current
  frameCount,       \* frameCountRef.current
  loopCount,        \* particlesRef.current.length
  canvas,           \* [frame, drawn]: the frame drawn last and its particles
  lastTick,         \* what the last call of animate did
  \* ---- the control panel and the configuration it edits
  panelConfig,      \* the numeric fields of config (page.tsx state)
  panelLast,        \* the control-panel operation applied last
  \* ---- sequential activation in the preview
  actConfig,        \* [enableInitialAnimation, particlesPerSecond2]
  actData,          \* particleData.length
  actParticles,     \* particlesRef.current.length
  actActivated,     \* particlesActivatedRef.current
  actStart,         \* animationStartTimeRef.current
  actNow,           \* performance.now() at the last event
  actLife,          \* the simulation lifetime since the last re-initialization
  \* ---- the connection lines of one drawn frame
  connConfig,       \* [enableConnections, connectionDistance]
  connParticles,    \* particlesRef.current: index -> [x, y]
  connActivated,    \* particlesActivatedRef.current
  connDrawn,        \* the segments of the last frame: pairs of indices
  connTicked,       \* a frame has been drawn
  \* ---- the velocity colour of the preview and of the exported component
  hueConfig,        \* [enableVelocityColor, velocityColorMode, velocityColorIntensity]
  hueColors,        \* p.color of each particle
  hueVelocity,      \* the velocity of each particle in the last frame
  particleHueOffsets, \* the WeakMap of the exported component: an optional hue per particle
  liveDisplay,      \* displayColor of each particle in the preview
  exportDisplay,    \* displayColor of each particle in the exported component
  hueFrames,        \* frames drawn
  \* ---- the page's configuration and the particle array of the preview it feeds
  rbImage,          \* imageData of page.tsx: [id, width, height, count]
  rbConfig,         \* config of page.tsx: sampling, initParticles and motion fields
  rbCount,          \* particlesRef.current.length
  rbActivated,      \* particlesActivatedRef.current
  rbParticle,       \* particlesRef.current[0]: [x, y, originX, originY, vx, vy]
  rbTicks,          \* physics ticks of the particle array since it was built
  rbLast,           \* the handler run last, and whether initParticles built the array
  \* ---- the password gate of middleware.ts
  authPassword,     \* process.env.AUTH_PASSWORD: {} when not set
  authSent,         \* what the client of the last request meant to send
  authHeader,       \* the authorization header of the last request, if any
  authResponse,     \* the response to the last request: [status, headers]
  \* ---- the optional-mask manager of MaskManager.tsx
  managerMasks,     \* the masks prop: sequence of [id, slug, name]
  managerActive,    \* activeMaskId: {} when null
  editingId,        \* {} when null
  editName,         \* the text of the name input
  idsGenerated,     \* how many ids generateId has returned
  \* ---- the undo history of MaskingTool.tsx
  maskCanvas,       \* the content of the interaction mask's canvas
  paintedMasks,     \* optional mask id -> data: {} when null
  isEditingOptionalMask,\* the mask type toggle of page.tsx
  activeMaskId,     \* {} when null
  toolMode,         \* draw or erase
  history,          \* historyRef.current: sequence of snapshots
  canUndo,          \* the state that enables the undo button
  historyFrom,      \* for each snapshot, the mask it was taken from (0: the interaction mask)
  lastBefore,       \* mask -> its content before its latest stroke or clear not yet undone
  undoBudget        \* [switches, clears] done so far

extractVars == <<imageData, config, maskData, optionalMasks, particleEdits,
                 particles, particleData>>
quantVars == <<qImage, qClusterCount, qResult>>
springVars == <<simConfig, particle, particlesActivated, springTicks>>
engineVars == <<qualityMode, slowFrameCount, activityFrameCount, mouse, pCount, dataCount,
                observed>>
exportVars == <<simData, liveSim, exportSim, exportTicks>>
exporterVars == <<exporterProps, exportMode, copied, exporterData, exporterMemo,
                  exporterCalls>>
pointerVars == <<pointerConfig, pointerComplete, pointerMouse, pointerParticle,
                 pointerEval, pointerTicks>>
parseVars == <<rgbColor, rgbResult>>
loopVars == <<mounted, rafPending, rafNextId, animationRef, effectGen, adaptiveSkip,
              frameCount, loopCount, canvas, lastTick>>
panelVars == <<panelConfig, panelLast>>
actVars == <<actConfig, actData, actParticles, actActivated, actStart, actNow, actLife>>
connVars == <<connConfig, connParticles, connActivated, connDrawn, connTicked>>
hueVars == <<hueConfig, hueColors, hueVelocity, particleHueOffsets, liveDisplay, exportDisplay, hueFrames>>
rebuildVars == <<rbImage, rbConfig, rbCount, rbActivated, rbParticle, rbTicks, rbLast>>
authVars == <<authPassword, authSent, authHeader, authResponse>>
managerVars == <<managerMasks, managerActive, editingId, editName, idsGenerated>>
undoVars == <<maskCanvas, paintedMasks, isEditingOptionalMask, activeMaskId, toolMode, history, canUndo, historyFrom, lastBefore, undoBudget>>
restVars == <<connVars, hueVars, rebuildVars, authVars, managerVars, undoVars>>
otherVars == <<exportVars, exporterVars, pointerVars, parseVars, loopVars, panelVars,
               actVars, restVars>>
earlyVars == <<extractVars, quantVars, springVars, engineVars, exportVars, exporterVars,
               pointerVars, parseVars, loopVars, panelVars, actVars>>
notConn == <<earlyVars, hueVars, rebuildVars, authVars, managerVars, undoVars>>
notHue == <<earlyVars, connVars, rebuildVars, authVars, managerVars, undoVars>>
notRebuild == <<earlyVars, connVars, hueVars, authVars, managerVars, undoVars>>
notAuth == <<earlyVars, connVars, hueVars, rebuildVars, managerVars, undoVars>>
notManager == <<earlyVars, connVars, hueVars, rebuildVars, authVars, undoVars>>
notUndo == <<earlyVars, connVars, hueVars, rebuildVars, authVars, managerVars>>
notExport ==
  <<extractVars, quantVars, engineVars, exporterVars, pointerVars, parseVars, loopVars, panelVars, actVars,
    restVars>>
notExporter ==
  <<extractVars, quantVars, springVars, engineVars, exportVars, pointerVars, parseVars, loopVars, panelVars, actVars,
    restVars>>
notParse == <<extractVars, quantVars, springVars, engineVars, exportVars, exporterVars,
               pointerVars, loopVars, panelVars, actVars,
    restVars>>
notLoop == <<extractVars, quantVars, engineVars, exportVars, exporterVars, pointerVars,
              parseVars, panelVars, actVars,
    restVars>>
notPanel == <<extractVars, quantVars, springVars, engineVars, exportVars, exporterVars,
               pointerVars, parseVars, loopVars, actVars,
    restVars>>
notAct == <<extractVars, quantVars, springVars, engineVars, exportVars, exporterVars,
             pointerVars, parseVars, loopVars, panelVars,
    restVars>>
notPointer ==
  <<extractVars, quantVars, springVars, engineVars, exportVars, exporterVars, parseVars, loopVars, panelVars, actVars,
    restVars>>

(***************************************************************************)
(* Bounds of the model.                                                    *)
(***************************************************************************)
MaxW == 5
MaxH == 4
MaxRes == 3
MaxEdits == 3
MaxRndPixels == 2
StripW == 30
StripMax == 22
MaxSamples == 3
MaxClusters == 3
MaxTicks == 5
MaxCount == 2
MaxData == 2
MaxPointerTicks == 2
MaxFrames == 5
MaxGens == 2
MaxClock == 4
MaxConnected == 52
MaxHueFrames == 3

(***************************************************************************)
(* Strings and numbers.                                                    *)
(***************************************************************************)
DigitChars == <<"0", "1", "2", "3", "4", "5", "6", "7", "8", "9">>

HexChars == <<"0", "1", "2", "3", "4", "5", "6", "7", "8", "9",
              "a", "b", "c", "d", "e", "f">>

UpperHexChars == <<"0", "1", "2", "3", "4", "5", "6", "7", "8", "9",
                   "A", "B", "C", "D", "E", "F">>

IsDigit(c) == \E d \in 1..10 : DigitChars[d] = c

IsHexDigit(c) == \E d \in 1..16 : HexChars[d] = c \/ UpperHexChars[d] = c

DigitValue(c) == (CHOOSE d \in 1..10 : DigitChars[d] = c) - 1

HexValue(c) == (CHOOSE d \in 1..16 : HexChars[d] = c \/ UpperHexChars[d] = c) - 1

\* String(n) of a number, as a template literal `${n}` renders an integer.
RECURSIVE NumberToString(_)
NumberToString(n) ==
  IF n < 0 THEN <<"-">> \o NumberToString(-n)
  ELSE IF n < 10 THEN <<DigitChars[n + 1]>>
  ELSE NumberToString(n \div 10) \o <<DigitChars[(n % 10) + 1]>>

\* The template literal `rgb(${r},${g},${b})`.
RgbString(r, g, b) ==
  <<"r", "g", "b", "(">> \o NumberToString(r) \o <<",">> \o NumberToString(g)
    \o <<",">> \o NumberToString(b) \o <<")">>

\* s.slice(from, to) with 0 <= from <= to (0-based, end exclusive).
Slice(s, from, to) ==
  LET lo == IF from < Len(s) THEN from ELSE Len(s)
      hi == IF to < Len(s) THEN to ELSE Len(s)
  IN  IF hi <= lo THEN <<>> ELSE SubSeq(s, lo + 1, hi)

\* A number that may be NaN: {} is NaN, {n} is n.
NaN == {}

Num(n) == {n}

IsNaN(v) == v = {}

Val(v) == CHOOSE n \in v : TRUE

\* The longest prefix of s made of characters satisfying the digit test.
RECURSIVE HexPrefixValue(_, _, _)
HexPrefixValue(s, i, acc) ==
  IF i <= Len(s) /\ IsHexDigit(s[i])
  THEN HexPrefixValue(s, i + 1, acc * 16 + HexValue(s[i]))
  ELSE acc

\* parseInt(s, 16) on a string without sign, blanks or 0x prefix.
ParseIntHex(s) ==
  IF Len(s) = 0 \/ ~IsHexDigit(s[1]) THEN NaN ELSE Num(HexPrefixValue(s, 1, 0))

RECURSIVE DecPrefixValue(_, _, _)
DecPrefixValue(s, i, acc) ==
  IF i <= Len(s) /\ IsDigit(s[i])
  THEN DecPrefixValue(s, i + 1, acc * 10 + DigitValue(s[i]))
  ELSE acc

\* parseInt(s) on a run of decimal digits.
ParseIntDec(s) ==
  IF Len(s) = 0 \/ ~IsDigit(s[1]) THEN NaN ELSE Num(DecPrefixValue(s, 1, 0))

\* color.match(/\d+/g): the maximal runs of decimal digits, left to right.
RECURSIVE DigitRuns(_, _, _)
DigitRuns(s, i, run) ==
  IF i > Len(s) THEN (IF run = <<>> THEN <<>> ELSE <<run>>)
  ELSE IF IsDigit(s[i]) THEN DigitRuns(s, i + 1, Append(run, s[i]))
  ELSE (IF run = <<>> THEN <<>> ELSE <<run>>) \o DigitRuns(s, i + 1, <<>>)

\* parseInt(match[k]) where match[k] may be undefined (k is 0-based).
ParseMatch(runs, k) == IF k < Len(runs) THEN ParseIntDec(runs[k + 1]) ELSE NaN

\* parseColor of particleUtils.ts: a triple of numbers, each possibly NaN.
parseColor(color) ==
  IF Len(color) > 0 /\ color[1] = "#"
  THEN LET hex == Slice(color, 1, Len(color))
       IN  <<ParseIntHex(Slice(hex, 0, 2)), ParseIntHex(Slice(hex, 2, 4)),
             ParseIntHex(Slice(hex, 4, 6))>>
  ELSE LET match == DigitRuns(color, 1, <<>>)
       IN  IF match # <<>>
           THEN <<ParseMatch(match, 0), ParseMatch(match, 1), ParseMatch(match, 2)>>
           ELSE <<Num(255), Num(255), Num(255)>>

Min(a, b) == IF a < b THEN a ELSE b

Max(a, b) == IF a > b THEN a ELSE b

\* Math.round of the rational num/den (den > 0): the nearest integer, ties up.
RoundDiv(num, den) == (2 * num + den) \div (2 * den)

(***************************************************************************)
(* Colour filters (applyColorFilter).  The weighted sums are computed in   *)
(* thousandths; on the pixel values of this model the double-precision     *)
(* results of the source round to the same integers.                       *)
(***************************************************************************)
Luma1000(r, g, b) == 299 * r + 587 * g + 114 * b

Sepia(r, g, b) ==
  <<Min(255, RoundDiv(393 * r + 769 * g + 189 * b, 1000)),
    Min(255, RoundDiv(349 * r + 686 * g + 168 * b, 1000)),
    Min(255, RoundDiv(272 * r + 534 * g + 131 * b, 1000))>>

applyColorFilter(r, g, b, filter) ==
  CASE filter = "grayscale" ->
         LET gray == RoundDiv(Luma1000(r, g, b), 1000) IN <<gray, gray, gray>>
    [] filter = "sepia" -> Sepia(r, g, b)
    [] filter = "inverted" -> <<255 - r, 255 - g, 255 - b>>
    [] filter = "saturated" ->
         \* gray + 1.5 * (c - gray) = (3000 c - gray1000) / 2000
         LET G == Luma1000(r, g, b)
         IN  <<Min(255, Max(0, RoundDiv(3000 * r - G, 2000))),
               Min(255, Max(0, RoundDiv(3000 * g - G, 2000))),
               Min(255, Max(0, RoundDiv(3000 * b - G, 2000)))>>
    [] filter = "desaturated" ->
         \* gray + 0.5 * (c - gray) = (1000 c + gray1000) / 2000
         LET G == Luma1000(r, g, b)
         IN  <<RoundDiv(1000 * r + G, 2000), RoundDiv(1000 * g + G, 2000),
               RoundDiv(1000 * b + G, 2000)>>
    [] filter = "warm" -> <<Min(255, r + 20), g, Max(0, b - 20)>>
    [] filter = "cool" -> <<Max(0, r - 20), g, Min(255, b + 20)>>
    [] filter = "vintage" ->
         LET sepia == Sepia(r, g, b)
         IN  <<Min(255, sepia[1] + 10), sepia[2], Max(0, sepia[3] - 15)>>
    [] OTHER -> <<r, g, b>>

(***************************************************************************)
(* Colour quantizer (quantizeColors).                                      *)
(***************************************************************************)
SampleStrideBytes == 40

KMeansIterations == 10

AlphaSampleFloor == 128

\* The squared value of colorDistance; Math.sqrt is strictly increasing on
\* the integers below 3 * 255^2, so comparing squares compares distances.
colorDistanceSq(c1, c2) ==
  (c1[1] - c2[1]) * (c1[1] - c2[1]) + (c1[2] - c2[2]) * (c1[2] - c2[2])
    + (c1[3] - c2[3]) * (c1[3] - c2[3])

\* The sampling loop: every 10th pixel whose alpha exceeds 128.
RECURSIVE SampleColors(_, _)
SampleColors(pixels, i) ==
  IF i >= Len(pixels) THEN <<>>
  ELSE (IF i + 3 < Len(pixels) /\ pixels[i + 4] > AlphaSampleFloor
        THEN <<(<<pixels[i + 1], pixels[i + 2], pixels[i + 3]>>)>>
        ELSE <<>>)
       \o SampleColors(pixels, i + SampleStrideBytes)

\* colors.slice(0, clusterCount), each centroid an optional triple.
InitialCentroids(colors, clusterCount) ==
  [j \in 1..Min(Len(colors), clusterCount) |-> {colors[j]}]

\* The inner loop over the centroids: minDist = {} is Infinity.  Every
\* centroid is defined here (an undefined one throws before, see KMeans).
RECURSIVE ClosestFrom(_, _, _, _, _)
ClosestFrom(color, centroids, i, minDist, closestIdx) ==
  IF i > Len(centroids) THEN closestIdx
  ELSE LET dist == colorDistanceSq(color, Val(centroids[i]))
       IN  IF minDist = {} \/ dist < Val(minDist)
           THEN ClosestFrom(color, centroids, i + 1, {dist}, i)
           ELSE ClosestFrom(color, centroids, i + 1, minDist, closestIdx)

ClosestIdx(color, centroids) == ClosestFrom(color, centroids, 1, {}, 1)

RECURSIVE SumChannel(_, _, _)
SumChannel(cluster, ch, i) ==
  IF i > Len(cluster) THEN 0 ELSE cluster[i][ch] + SumChannel(cluster, ch, i + 1)

\* clusters.map((cluster, i) => ...): an empty cluster keeps centroids[i],
\* which is undefined when i is past the end of centroids.
UpdateCentroids(colors, centroids, clusterCount) ==
  [j \in 1..clusterCount |->
     LET cluster == SelectSeq(colors, LAMBDA c : ClosestIdx(c, centroids) = j)
     IN  IF Len(cluster) = 0
         THEN (IF j <= Len(centroids) THEN centroids[j] ELSE {})
         ELSE {<<RoundDiv(SumChannel(cluster, 1, 1), Len(cluster)),
                 RoundDiv(SumChannel(cluster, 2, 1), Len(cluster)),
                 RoundDiv(SumChannel(cluster, 3, 1), Len(cluster))>>}]

HasUndefined(centroids) == \E j \in 1..Len(centroids) : centroids[j] = {}

\* The 10 iterations.  colorDistance(color, undefined) reads c2[0] of
\* undefined, a TypeError; colors is never empty here.
RECURSIVE KMeans(_, _, _, _)
KMeans(colors, centroids, clusterCount, iter) ==
  IF iter >= KMeansIterations THEN [threw |-> FALSE, centroids |-> centroids]
  ELSE IF HasUndefined(centroids) THEN [threw |-> TRUE, centroids |-> centroids]
  ELSE KMeans(colors, UpdateCentroids(colors, centroids, clusterCount),
              clusterCount, iter + 1)

quantizeColors(pixels, clusterCount) ==
  LET colors == SampleColors(pixels, 0)
  IN  IF Len(colors) = 0
      THEN [state |-> "returned", value |-> <<(<<"#", "f", "f", "f", "f", "f", "f">>)>>]
      ELSE LET km == KMeans(colors, InitialCentroids(colors, clusterCount),
                            clusterCount, 0)
           IN  IF km.threw \/ HasUndefined(km.centroids)
               THEN [state |-> "threw", value |-> <<>>]
               ELSE [state |-> "returned",
                     value |-> [j \in 1..Len(km.centroids) |->
                                  LET c == Val(km.centroids[j])
                                  IN  RgbString(c[1], c[2], c[3])]]

\* findNearestColor: dist is NaN when a palette entry does not parse, and
\* (NaN < minDist) is false.
RECURSIVE NearestFrom(_, _, _, _, _)
NearestFrom(rgb, palette, i, minDist, nearest) ==
  IF i > Len(palette) THEN nearest
  ELSE LET parsed == parseColor(palette[i])
           isNaN == IsNaN(parsed[1]) \/ IsNaN(parsed[2]) \/ IsNaN(parsed[3])
           dist == colorDistanceSq(rgb, <<Val(parsed[1]), Val(parsed[2]), Val(parsed[3])>>)
       IN  IF ~isNaN /\ (minDist = {} \/ dist < Val(minDist))
           THEN NearestFrom(rgb, palette, i + 1, {dist}, palette[i])
           ELSE NearestFrom(rgb, palette, i + 1, minDist, nearest)

findNearestColor(rgb, palette) == NearestFrom(rgb, palette, 1, {}, palette[1])

(***************************************************************************)
(* Double-precision arithmetic of the resampling step.                     *)
(*                                                                         *)
(* Math.floor(i * step) with step = n / m, for integers 0 <= i < m < n.    *)
(* Both the division and the product are rounded to 53 significant bits.   *)
(* When m does not divide i*n the exact quotient is at least 1/m away from *)
(* an integer and the rounding errors cannot cross it.  When m divides     *)
(* i*n, the exact product of i and the rounded step is K = i*n/m plus      *)
(* i times the rounding error of n/m; it falls below K when n/m was        *)
(* rounded down, and then rounds back to K only if it is within half a     *)
(* unit in the last place of K.  Only remainders modulo m are needed, so   *)
(* every intermediate value is a small integer.                            *)
(***************************************************************************)
MantissaBits == 52

RECURSIVE Pow2(_)
Pow2(k) == IF k <= 0 THEN 1 ELSE 2 * Pow2(k - 1)

\* The e with 2^e <= n/m < 2^(e+1), for n >= m.
RECURSIVE RatioExponent(_, _, _)
RatioExponent(n, m, e) ==
  IF n >= m * Pow2(e + 1) THEN RatioExponent(n, m, e + 1) ELSE e

\* The f with 2^f <= k < 2^(f+1), for k >= 1.
RECURSIVE IntExponent(_, _)
IntExponent(k, f) == IF Pow2(f + 1) <= k THEN IntExponent(k, f + 1) ELSE f

\* (r * 2^k) mod m by repeated doubling.
RECURSIVE ShiftMod(_, _, _)
ShiftMod(r, k, m) == IF k <= 0 THEN r % m ELSE ShiftMod((2 * r) % m, k - 1, m)

FloorOfProduct(i, n, m) ==
  LET K == (i * n) \div m
      e == RatioExponent(n, m, 0)
      \* n * 2^(51-e) = q1 * m + r1; the 53-bit quotient is 2*q1 + odd
      r1 == ShiftMod(n % m, MantissaBits - 1 - e, m)
      odd == 2 * r1 >= m
      rem == (2 * r1) % m
      roundedDown == rem # 0 /\ (2 * rem < m \/ (2 * rem = m /\ ~odd))
      f0 == IntExponent(K, 0)
      f == IF Pow2(f0) = K THEN f0 - 1 ELSE f0
  IN  IF (i * n) % m # 0 \/ i = 0 THEN K
      ELSE IF roundedDown /\ i * rem * Pow2(e + 1) > m * Pow2(f) THEN K - 1
      ELSE K

(***************************************************************************)
(* Particle extractor (extractParticleData).                               *)
(***************************************************************************)
DefaultRadius == 15

MaskedBelow == 128

\* A read past the end counts as a masked pixel.
ReadsMaskedPastEnd(arr, index) == index >= Len(arr) \/ arr[index + 1] < MaskedBelow

\* arr[index] < 128 on a typed array: a read past the end is undefined,
\* and (undefined < 128) is false.
ReadsMasked(arr, index) == index < Len(arr) /\ arr[index + 1] < MaskedBelow

\* edit.radius || 15
EffectiveRadius(edit) ==
  IF edit.radius = {} \/ edit.radius = {0} THEN DefaultRadius ELSE Val(edit.radius)

\* The delete-zone loop: some delete edit has the point strictly inside.
IsDeleted(x, y, deleteEdits) ==
  \E k \in 1..Len(deleteEdits) :
    LET dx == x - deleteEdits[k].x
        dy == y - deleteEdits[k].y
        radius == EffectiveRadius(deleteEdits[k])
    IN  dx * dx + dy * dy < radius * radius

\* particleMasks: the slugs of the optional masks whose bitmap reads < 128.
RECURSIVE ParticleMasks(_, _, _)
ParticleMasks(masks, index, k) ==
  IF k > Len(masks) THEN <<>>
  ELSE (IF masks[k].data # {} /\ ReadsMasked(Val(masks[k].data), index)
        THEN <<masks[k].slug>> ELSE <<>>)
       \o ParticleMasks(masks, index, k + 1)

\* A faulty PixelColor: the channels are taken in the order b, g, r.
PixelColorSwapped(cfg, palette, rnd, pixelNo, r, g, b) ==
  LET f == applyColorFilter(b, g, r, cfg.colorFilter)
  IN  IF cfg.useOriginalColors
      THEN (IF palette # {} THEN findNearestColor(f, Val(palette))
            ELSE RgbString(f[1], f[2], f[3]))
      ELSE cfg.customColors[rnd[pixelNo] + 1]

\* The colour of a sampled pixel.  palette is optional; rnd[y * width + x]
\* is the value of Math.floor(Math.random() * customColors.length) there.
PixelColor(cfg, palette, rnd, pixelNo, r, g, b) ==
  LET f == applyColorFilter(r, g, b, cfg.colorFilter)
  IN  IF cfg.useOriginalColors
      THEN (IF palette # {} THEN findNearestColor(f, Val(palette))
            ELSE RgbString(f[1], f[2], f[3]))
      ELSE cfg.customColors[rnd[pixelNo] + 1]

\* The body of the raster loop at (x, y): no particle or one.
SamplePixel(img, cfg, mask, masks, deleteEdits, palette, rnd, x, y) ==
  LET index == (y * img.width + x) * 4
      px == img.pixels
  IN  IF px[index + 4] < cfg.alphaThreshold THEN <<>>
      ELSE IF IsDeleted(x, y, deleteEdits) THEN <<>>
      ELSE LET particleMasks == ParticleMasks(masks, index, 1)
           IN  <<[x |-> x, y |-> y,
                  color |-> PixelColor(cfg, palette, rnd, y * img.width + x,
                                       px[index + 1], px[index + 2], px[index + 3]),
                  masked |-> IF mask # {} THEN ReadsMasked(Val(mask), index) ELSE FALSE,
                  optionalMasks |-> IF Len(particleMasks) > 0 THEN {particleMasks} ELSE {}]>>

Gap(cfg) == Max(1, cfg.resolution)

\* A faulty HalfGap: the scan starts at the edge, not half a cell in.
HalfGapZero(cfg) == 0

HalfGap(cfg) == Gap(cfg) \div 2

RECURSIVE ScanRow(_, _, _, _, _, _, _, _, _)
ScanRow(img, cfg, mask, masks, deleteEdits, palette, rnd, x, y) ==
  IF x < img.width - HalfGap(cfg)
  THEN SamplePixel(img, cfg, mask, masks, deleteEdits, palette, rnd, x, y)
       \o ScanRow(img, cfg, mask, masks, deleteEdits, palette, rnd, x + Gap(cfg), y)
  ELSE <<>>

RECURSIVE ScanRows(_, _, _, _, _, _, _, _)
ScanRows(img, cfg, mask, masks, deleteEdits, palette, rnd, y) ==
  IF y < img.height - HalfGap(cfg)
  THEN ScanRow(img, cfg, mask, masks, deleteEdits, palette, rnd, HalfGap(cfg), y)
       \o ScanRows(img, cfg, mask, masks, deleteEdits, palette, rnd, y + Gap(cfg))
  ELSE <<>>

DeleteEdits(edits) == SelectSeq(edits, LAMBDA e : e.type = "delete")

AddEdits(edits) == SelectSeq(edits, LAMBDA e : e.type = "add")

\* First pass: the image-derived candidates, in scan order.
RasterParticles(img, cfg, mask, masks, edits, palette, rnd) ==
  ScanRows(img, cfg, mask, masks, DeleteEdits(edits), palette, rnd, HalfGap(cfg))

\* A faulty AddedParticle: an add edit is not tested against delete zones.
AddedParticleUnchecked(edit, deleteEdits) ==
  <<[x |-> edit.x, y |-> edit.y,
     color |-> IF edit.color = {} \/ edit.color = {<<>>}
               THEN <<"#", "f", "f", "f", "f", "f", "f">>
               ELSE Val(edit.color),
     masked |-> FALSE,
     optionalMasks |-> edit.optionalMasks]>>

\* The particle an add edit contributes: none inside a delete zone.
AddedParticle(edit, deleteEdits) ==
  IF IsDeleted(edit.x, edit.y, deleteEdits) THEN <<>>
  ELSE <<[x |-> edit.x, y |-> edit.y,
          color |-> IF edit.color = {} \/ edit.color = {<<>>}
                    THEN <<"#", "f", "f", "f", "f", "f", "f">>
                    ELSE Val(edit.color),
          masked |-> FALSE,
          optionalMasks |-> edit.optionalMasks]>>

\* A faulty AddedFrom: the add edits are appended last to first.
RECURSIVE AddedFromReversed(_, _, _)
AddedFromReversed(addEdits, deleteEdits, k) ==
  IF k > Len(addEdits) THEN <<>>
  ELSE AddedFromReversed(addEdits, deleteEdits, k + 1)
       \o AddedParticle(addEdits[k], deleteEdits)

RECURSIVE AddedFrom(_, _, _)
AddedFrom(addEdits, deleteEdits, k) ==
  IF k > Len(addEdits) THEN <<>>
  ELSE AddedParticle(addEdits[k], deleteEdits) \o AddedFrom(addEdits, deleteEdits, k + 1)

AddedParticles(edits) == AddedFrom(AddEdits(edits), DeleteEdits(edits), 1)

\* The cap: maxParticles candidates at the indices Math.floor(i * step).
Resample(potentialParticles, maxParticles) ==
  IF Len(potentialParticles) > maxParticles
  THEN [i \in 1..maxParticles |->
          potentialParticles[FloorOfProduct(i - 1, Len(potentialParticles), maxParticles) + 1]]
  ELSE potentialParticles

Palette(img, cfg) ==
  IF cfg.useOriginalColors /\ cfg.colorClustering
  THEN quantizeColors(img.pixels, cfg.clusterCount)
  ELSE [state |-> "none", value |-> <<>>]

\* One call.  The result records, beside the returned list, the candidate
\* list and the number of image-derived candidates in it.
extractParticleData(img, cfg, mask, masks, edits, rnd) ==
  LET q == Palette(img, cfg)
      palette == IF q.state = "returned" THEN {q.value} ELSE {}
      raster == RasterParticles(img, cfg, mask, masks, edits, palette, rnd)
      potentialParticles == raster \o AddedParticles(edits)
  IN  IF q.state = "threw"
      THEN [state |-> "threw", value |-> <<>>, potentialParticles |-> <<>>,
            rasterCount |-> 0]
      ELSE [state |-> "returned",
            value |-> Resample(potentialParticles, cfg.maxParticles),
            potentialParticles |-> potentialParticles,
            rasterCount |-> Len(raster)]

(***************************************************************************)
(* Inputs of the extractor: images, configurations, masks and edit lists.  *)
(***************************************************************************)
\* The RGBA value of pixel (x, y) of a test image.
PixelAt(pattern, x, y) ==
  <<(37 * x + 3) % 256, (53 * y + 1) % 256, 200,
    CASE pattern = "opaque" -> 255
      [] pattern = "holes" -> (IF (x + y) % 2 = 0 THEN 255 ELSE 100)
      [] OTHER -> 0>>

MakeImage(w, h, pattern) ==
  [width |-> w, height |-> h,
   pixels |-> [k \in 1..(4 * w * h) |->
                 LET p == (k - 1) \div 4
                 IN  PixelAt(pattern, p % w, p \div w)[((k - 1) % 4) + 1]]]

\* A mask bitmap as the masking tool writes it: black (0) is masked.
MakeMask(w, h, kind) ==
  [k \in 1..(IF kind = "short" THEN 4 ELSE 4 * w * h) |->
     LET p == (k - 1) \div 4
     IN  IF (k - 1) % 4 = 3 THEN 255
         ELSE IF kind = "checker" /\ ((p % w) + (p \div w)) % 2 = 1 THEN 255
         ELSE 0]

Indigo == <<"#", "6", "3", "6", "6", "f", "1">>

Violet == <<"#", "8", "b", "5", "c", "f", "6">>

Green == <<"#", "0", "0", "f", "f", "0", "0">>

Filters == {"none", "grayscale", "sepia", "inverted", "saturated", "desaturated",
            "warm", "cool", "vintage"}

BaseConfig ==
  [resolution |-> 1, alphaThreshold |-> 0, maxParticles |-> 100,
   useOriginalColors |-> TRUE, customColors |-> <<Indigo, Violet>>,
   colorClustering |-> FALSE, clusterCount |-> 2, colorFilter |-> "none"]

Input(img, cfg, mask, masks, edits) ==
  [img |-> img, cfg |-> cfg, mask |-> mask, masks |-> masks, edits |-> edits]

\* Sampling geometry: every size, stride, threshold and cap.
GeometryInputs ==
  {Input(MakeImage(w, h, p),
         [BaseConfig EXCEPT !.resolution = res, !.alphaThreshold = at,
                            !.maxParticles = mp],
         {}, <<>>, <<>>) :
     w \in 1..MaxW, h \in 1..MaxH, p \in {"opaque", "holes"}, res \in 0..MaxRes,
     at \in {0, 128}, mp \in {1, 5, 16, 100}}

AddEdit(x, y, color, slugs) ==
  [type |-> "add", x |-> x, y |-> y, color |-> color, radius |-> {},
   optionalMasks |-> slugs]

DeleteEdit(x, y, radius) ==
  [type |-> "delete", x |-> x, y |-> y, color |-> {}, radius |-> radius,
   optionalMasks |-> {}]

ModifyEdit(x, y) ==
  [type |-> "modify", x |-> x, y |-> y, color |-> {Green}, radius |-> {1},
   optionalMasks |-> {}]

EditSet ==
  {AddEdit(1, 1, {Green}, {<<"logo">>}), AddEdit(2, 1, {}, {}), AddEdit(2, 2, {Indigo}, {}),
   DeleteEdit(2, 2, {1}), DeleteEdit(0, 0, {2}), DeleteEdit(2, 2, {0}),
   ModifyEdit(1, 1)}

EditLists == UNION {[1..k -> EditSet] : k \in 0..MaxEdits}

\* Edit lists over the largest image.
EditInputs ==
  {Input(MakeImage(MaxW, MaxH, "opaque"),
         [BaseConfig EXCEPT !.resolution = res, !.maxParticles = mp],
         {}, <<>>, edits) :
     res \in {1, 2}, mp \in {5, 100}, edits \in EditLists}

MaskLists(w, h) ==
  {<<>>,
   <<[slug |-> "logo", data |-> {}]>>,
   <<[slug |-> "logo", data |-> {MakeMask(w, h, "checker")}],
     [slug |-> "bg", data |-> {MakeMask(w, h, "short")}]>>}

\* Interaction mask and optional masks, well-sized, short and absent.
MaskInputs ==
  {Input(MakeImage(2, 2, "opaque"), BaseConfig, mask, masks, edits) :
     mask \in {{}, {MakeMask(2, 2, "black")}, {MakeMask(2, 2, "checker")},
               {MakeMask(2, 2, "short")}},
     masks \in MaskLists(2, 2),
     edits \in {<<>>, <<AddEdit(1, 1, {Green}, {<<"logo">>})>>}}

ColorModes ==
  {[BaseConfig EXCEPT !.colorFilter = f] : f \in Filters}
  \cup {[BaseConfig EXCEPT !.colorClustering = TRUE, !.clusterCount = k, !.colorFilter = f] :
          k \in 1..2, f \in {"none", "inverted"}}
  \cup {[BaseConfig EXCEPT !.useOriginalColors = FALSE, !.customColors = cc] :
          cc \in {<<Indigo, Violet>>, <<Indigo>>}}

\* Colour sources on images of a few pixels, and clustering with two samples.
ColorInputs ==
  {Input(MakeImage(w, 1, p), cfg, {}, <<>>, <<>>) :
     w \in 1..MaxRndPixels, p \in {"opaque", "holes"}, cfg \in ColorModes}
  \cup {Input(MakeImage(MaxW, MaxH, p),
              [BaseConfig EXCEPT !.colorClustering = TRUE, !.clusterCount = k],
              {}, <<>>, <<>>) :
          p \in {"opaque", "holes"}, k \in 1..MaxClusters}

\* One row of StripW opaque pixels capped at StripMax particles.
StripInputs ==
  {Input(MakeImage(StripW, 1, "opaque"), [BaseConfig EXCEPT !.maxParticles = StripMax],
         {}, <<>>, <<>>)}

\* The 4 x 4 opaque image with one delete edit of radius 1 at (2, 2).
ScenarioInputs ==
  {Input(MakeImage(4, 4, "opaque"), BaseConfig, {}, <<>>, <<DeleteEdit(2, 2, {1})>>)}

ExtractInputs ==
  GeometryInputs \cup EditInputs \cup MaskInputs \cup ColorInputs \cup StripInputs
    \cup ScenarioInputs

\* The values Math.floor(Math.random() * customColors.length) can take at
\* each pixel; with original colours Math.random is not called.
RndChoices(img, cfg) ==
  IF cfg.useOriginalColors
  THEN {[p \in 0..(img.width * img.height - 1) |-> 0]}
  ELSE [0..(img.width * img.height - 1) -> 0..(Len(cfg.customColors) - 1)]

Pending == [state |-> "pending", value |-> <<>>, potentialParticles |-> <<>>, rasterCount |-> 0]

IdleExtract ==
  /\ imageData = MakeImage(1, 1, "clear")
  /\ config = BaseConfig
  /\ maskData = {}
  /\ optionalMasks = <<>>
  /\ particleEdits = <<>>
  /\ particles = Pending
  /\ particleData = Pending

IdleQuant ==
  /\ qImage = <<>>
  /\ qClusterCount = 1
  /\ qResult = [state |-> "pending", value |-> <<>>]

IdleParticle == [x |-> 0, y |-> 0, originX |-> 0, originY |-> 0, vx |-> 0, vy |-> 0]

IdleSpring ==
  /\ simConfig = [friction4 |-> 3, returnSpeed4 |-> 1, particleSpeed |-> 1,
                  enableInitialAnimation |-> FALSE, enableMouseInteraction |-> FALSE,
                  enableIdleAnimation |-> FALSE, enableBounce |-> FALSE,
                  autoPerformance |-> {}, particleShape |-> {}]
  /\ particle = IdleParticle
  /\ particlesActivated = 0
  /\ springTicks = 0

MouseOff == [x |-> -1000, y |-> -1000]

NoFrames == [active |-> 0, slow |-> 0]

IdleEngine ==
  /\ observed = NoFrames
  /\ qualityMode = {}
  /\ slowFrameCount = 0
  /\ activityFrameCount = 0
  /\ mouse = MouseOff
  /\ pCount = 0
  /\ dataCount = 0

NoSim == [particles |-> <<>>, particlesActivated |-> 0]

IdleExport ==
  /\ simData = <<>>
  /\ liveSim = NoSim
  /\ exportSim = NoSim
  /\ exportTicks = 0

NoImageProps ==
  [imageData |-> {}, config |-> BaseConfig, maskData |-> {}, optionalMasks |-> <<>>,
   particleEdits |-> <<>>]

NoCode == [state |-> "rendered", componentCode |-> <<>>, dataCode |-> <<>>]

IdleExporter ==
  /\ exporterProps = NoImageProps
  /\ exportMode = "inline"
  /\ copied = {}
  /\ exporterData = [state |-> "returned", value |-> <<>>]
  /\ exporterMemo = NoCode
  /\ exporterCalls = {}

NotEvaluated == [ran |-> FALSE, distSq |-> NaN, dvx |-> Num(0), dvy |-> Num(0), divisors |-> {}]

IdlePointer ==
  /\ pointerConfig = [mouseRadius |-> 0]
  /\ pointerComplete = TRUE
  /\ pointerMouse = MouseOff
  /\ pointerParticle = [x |-> Num(0)]
  /\ pointerEval = NotEvaluated
  /\ pointerTicks = 0

IdleParse ==
  /\ rgbColor = [text |-> <<>>, channels |-> {}]
  /\ rgbResult = [state |-> "pending", value |-> <<>>]

BlankCanvas == [frame |-> 0, drawn |-> 0]

NoTick ==
  [ticked |-> FALSE, gen |-> 0, effect |-> 0, frameTime |-> 0, before |-> 0, after |-> 0,
   count |-> 0, skipFrames |-> 0, rendered |-> FALSE, stepped |-> 0]

IdleLoop ==
  /\ mounted = FALSE
  /\ rafPending = {}
  /\ rafNextId = 1
  /\ animationRef = 0
  /\ effectGen = 0
  /\ adaptiveSkip = 0
  /\ frameCount = 0
  /\ loopCount = 0
  /\ canvas = BlankCanvas
  /\ lastTick = NoTick

IdlePanel ==
  /\ panelConfig = [resolution |-> 5]
  /\ panelLast = "none"

NewLife(activated) ==
  [ticks |-> 0, previous |-> activated, ever |-> {}, integrated |-> {}, animated |-> FALSE]

IdleAct ==
  /\ actConfig = [enableInitialAnimation |-> FALSE, particlesPerSecond2 |-> 1]
  /\ actData = 0
  /\ actParticles = 0
  /\ actActivated = 0
  /\ actStart = 0
  /\ actNow = 0
  /\ actLife = NewLife(0)

IdleConn ==
  /\ connConfig = [enableConnections |-> FALSE, connectionDistance |-> 0]
  /\ connParticles = <<>>
  /\ connActivated = 0
  /\ connDrawn = {}
  /\ connTicked = FALSE

IdleHue ==
  /\ hueConfig = [enableVelocityColor |-> FALSE]
  /\ hueColors = <<>>
  /\ hueVelocity = <<>>
  /\ particleHueOffsets = <<>>
  /\ liveDisplay = <<>>
  /\ exportDisplay = <<>>
  /\ hueFrames = 0

IdleRebuild ==
  /\ rbImage = [id |-> 0]
  /\ rbConfig = [resolution |-> 1]
  /\ rbCount = 0
  /\ rbActivated = 0
  /\ rbParticle = IdleParticle
  /\ rbTicks = 0
  /\ rbLast = [op |-> "none", rebuilt |-> FALSE]

IdleAuth ==
  /\ authPassword = {}
  /\ authSent = [kind |-> "none"]
  /\ authHeader = {}
  /\ authResponse = [status |-> 0, headers |-> {}]

IdleManager ==
  /\ managerMasks = <<>>
  /\ managerActive = {}
  /\ editingId = {}
  /\ editName = <<>>
  /\ idsGenerated = 0

IdleUndo ==
  /\ maskCanvas = "white"
  /\ paintedMasks = <<>>
  /\ isEditingOptionalMask = FALSE
  /\ activeMaskId = {}
  /\ toolMode = "draw"
  /\ history = <<>>
  /\ canUndo = FALSE
  /\ historyFrom = <<>>
  /\ lastBefore = <<>>
  /\ undoBudget = [switches |-> 0, clears |-> 0]

IdleRest == IdleConn /\ IdleHue /\ IdleRebuild /\ IdleAuth /\ IdleManager /\ IdleUndo

IdleMiddle ==
  /\ IdleExport /\ IdleExporter /\ IdlePointer /\ IdleParse /\ IdleLoop /\ IdlePanel
  /\ IdleAct

IdleOther == IdleMiddle /\ IdleRest

IdleEarly == IdleExtract /\ IdleQuant /\ IdleSpring /\ IdleEngine /\ IdleMiddle
IdleButConn == IdleEarly /\ IdleHue /\ IdleRebuild /\ IdleAuth /\ IdleManager /\ IdleUndo
IdleButHue == IdleEarly /\ IdleConn /\ IdleRebuild /\ IdleAuth /\ IdleManager /\ IdleUndo
IdleButRebuild == IdleEarly /\ IdleConn /\ IdleHue /\ IdleAuth /\ IdleManager /\ IdleUndo
IdleButAuth == IdleEarly /\ IdleConn /\ IdleHue /\ IdleRebuild /\ IdleManager /\ IdleUndo
IdleButManager == IdleEarly /\ IdleConn /\ IdleHue /\ IdleRebuild /\ IdleAuth /\ IdleUndo
IdleButUndo == IdleEarly /\ IdleConn /\ IdleHue /\ IdleRebuild /\ IdleAuth /\ IdleManager

(***************************************************************************)
(* SpecExtract: the editor holds an image, a configuration, masks and      *)
(* edits; the page and the preview each call extractParticleData on them.  *)
(***************************************************************************)
InitExtract ==
  /\ \E in \in ExtractInputs :
       /\ imageData = in.img
       /\ config = in.cfg
       /\ maskData = in.mask
       /\ optionalMasks = in.masks
       /\ particleEdits = in.edits
  /\ particles = Pending
  /\ particleData = Pending
  /\ IdleQuant
  /\ IdleSpring
  /\ IdleEngine
  /\ IdleOther

\* app/page.tsx: particles = useMemo(() => extractParticleData(...))
PageExtract ==
  /\ particles.state = "pending"
  /\ \E rnd \in RndChoices(imageData, config) :
       particles' = extractParticleData(imageData, config, maskData, optionalMasks,
                                        particleEdits, rnd)
  /\ UNCHANGED <<imageData, config, maskData, optionalMasks, particleEdits, particleData>>
  /\ UNCHANGED <<quantVars, springVars, engineVars, otherVars>>

\* ParticlePreview.tsx: particleData = useMemo(() => extractParticleData(...))
PreviewExtract ==
  /\ particleData.state = "pending"
  /\ \E rnd \in RndChoices(imageData, config) :
       particleData' = extractParticleData(imageData, config, maskData, optionalMasks,
                                           particleEdits, rnd)
  /\ UNCHANGED <<imageData, config, maskData, optionalMasks, particleEdits, particles>>
  /\ UNCHANGED <<quantVars, springVars, engineVars, otherVars>>

NextExtract == PageExtract \/ PreviewExtract

vars == <<extractVars, quantVars, springVars, engineVars, otherVars>>

SpecExtract == InitExtract /\ [][NextExtract]_vars

(***************************************************************************)
(* Claims about the extractor, checked under SpecExtract.                  *)
(***************************************************************************)
Calls == {particles, particleData}

Returned == {c \in Calls : c.state = "returned"}

DistSq(p, e) == (p.x - e.x) * (p.x - e.x) + (p.y - e.y) * (p.y - e.y)

\* C1: two calls of extractParticleData on the same image, configuration,
\* masks and edits return identical particle lists (same length, order,
\* x, y, colour, masked flag and optional-mask slugs).
C1_SameInputsSameParticles ==
  (particles.state # "pending" /\ particleData.state # "pending")
    => (particles.state = particleData.state /\ particles.value = particleData.value)

\* C2 as stated: for every delete edit with radius r >= 0, no returned
\* particle lies within distance r (distance exactly r included) of its centre.
C2_NoParticleWithinRadius ==
  \A c \in Returned : \A k \in 1..Len(particleEdits) :
    (particleEdits[k].type = "delete" /\ particleEdits[k].radius # {})
      => \A j \in 1..Len(c.value) :
           DistSq(c.value[j], particleEdits[k])
             > Val(particleEdits[k].radius) * Val(particleEdits[k].radius)

\* C2 amended: for every delete edit, no returned particle lies at a
\* distance strictly less than the edit's radius from its centre, where a
\* radius of 0 (or none) stands for the default radius 15; a candidate at
\* distance exactly r is kept.
C2_NoParticleStrictlyInside ==
  \A c \in Returned : \A k \in 1..Len(particleEdits) :
    particleEdits[k].type = "delete"
      => LET r == IF particleEdits[k].radius \in {{}, {0}} THEN 15
                  ELSE Val(particleEdits[k].radius)
         IN  \A j \in 1..Len(c.value) : DistSq(c.value[j], particleEdits[k]) >= r * r

\* A delete edit of radius 1 centred on a pixel removed that pixel's
\* candidate and kept one at distance exactly 1.
C2_Witness ==
  /\ particles.state = "returned"
  /\ config.resolution = 1
  /\ \E k \in 1..Len(particleEdits) :
       /\ particleEdits[k].type = "delete"
       /\ particleEdits[k].radius = {1}
       /\ particleEdits[k].x < imageData.width /\ particleEdits[k].y < imageData.height
       /\ \E j \in 1..Len(particles.value) : DistSq(particles.value[j], particleEdits[k]) = 1
       /\ \A j \in 1..Len(particles.value) : DistSq(particles.value[j], particleEdits[k]) # 0

\* Byte index of the sampled pixel (x, y) in an RGBA bitmap of the image.
ByteIndex(pt) == (pt.y * imageData.width + pt.x) * 4

\* The bitmap holds a byte for the pixel, and the byte is below 128.
TaggedBy(bitmap, pt) ==
  ByteIndex(pt) < Len(bitmap) /\ bitmap[ByteIndex(pt) + 1] < 128

\* The slugs of the optional masks that have a bitmap tagging the pixel.
SlugsTagging(pt) ==
  LET tagging == SelectSeq(optionalMasks,
                           LAMBDA m : m.data # {} /\ TaggedBy(Val(m.data), pt))
  IN  [k \in 1..Len(tagging) |-> tagging[k].slug]

\* C25: when the interaction mask or an optional mask bitmap is shorter
\* than the image, every sampled pixel whose byte index falls outside the
\* bitmap is tagged not masked / not a member of that optional mask,
\* extraction does not fault, and pixels inside the bitmap are still tagged
\* by byte < 128; an absent interaction mask or an optional mask with
\* data = null tags nothing.
C25_ShortMaskReadsAsNoMask ==
  \A c \in Calls :
    /\ c.state = "threw" => config.colorClustering
    /\ c.state = "returned" =>
         \A j \in 1..c.rasterCount :
           LET pt == c.potentialParticles[j]
           IN  /\ pt.masked = (maskData # {} /\ TaggedBy(Val(maskData), pt))
               /\ pt.optionalMasks =
                    IF SlugsTagging(pt) = <<>> THEN {} ELSE {SlugsTagging(pt)}

\* An extraction has returned with an interaction mask and an optional mask
\* shorter than the image: a pixel inside the short bitmaps is tagged by
\* both, and a pixel outside them is tagged by neither.
C25_Witness ==
  /\ particles.state = "returned"
  /\ maskData # {}
  /\ Len(Val(maskData)) < Len(imageData.pixels)
  /\ \E k \in 1..Len(optionalMasks) :
       /\ optionalMasks[k].data # {}
       /\ Len(Val(optionalMasks[k].data)) < Len(imageData.pixels)
       /\ \E i, j \in 1..particles.rasterCount :
            LET in == particles.potentialParticles[i]
                out == particles.potentialParticles[j]
            IN  /\ ByteIndex(in) < Len(Val(maskData))
                /\ in.masked
                /\ in.optionalMasks # {}
                /\ optionalMasks[k].slug \in {Val(in.optionalMasks)[n] :
                                                 n \in 1..Len(Val(in.optionalMasks))}
                /\ ByteIndex(out) >= Len(Val(maskData))
                /\ ByteIndex(out) >= Len(Val(optionalMasks[k].data))
                /\ ~out.masked
                /\ \A n \in 1..(IF out.optionalMasks = {} THEN 0
                                  ELSE Len(Val(out.optionalMasks))) :
                     Val(out.optionalMasks)[n] # optionalMasks[k].slug

\* C3: with n candidates and n > maxParticles = m the result is the m
\* candidates numbered floor(i*n/m), i in [0, m); with n <= m it is the
\* candidate list unchanged.
C3_EvenlyStrided ==
  \A c \in Returned :
    LET n == Len(c.potentialParticles)
        m == config.maxParticles
    IN  IF n > m
        THEN /\ Len(c.value) = m
             /\ \A i \in 0..(m - 1) : c.value[i + 1] = c.potentialParticles[((i * n) \div m) + 1]
        ELSE c.value = c.potentialParticles

\* C4: the raster scan yields at most ceil(width/gap) * ceil(height/gap)
\* candidates, each at a coordinate in [floor(gap/2), dimension - floor(gap/2))
\* on the grid of stride gap = max(1, resolution).
C4_SamplingBound ==
  \A c \in Returned :
    LET gap == IF config.resolution > 1 THEN config.resolution ELSE 1
        half == gap \div 2
        w == imageData.width
        h == imageData.height
    IN  /\ c.rasterCount <= ((w + gap - 1) \div gap) * ((h + gap - 1) \div gap)
        /\ \A j \in 1..c.rasterCount :
             LET p == c.potentialParticles[j]
             IN  /\ half <= p.x /\ p.x < w - half /\ (p.x - half) % gap = 0
                 /\ half <= p.y /\ p.y < h - half /\ (p.y - half) % gap = 0

\* A scan with stride 2 that sampled two points of one row.
C4_Witness ==
  /\ particles.state = "returned"
  /\ config.resolution = 2
  /\ \E i, j \in 1..particles.rasterCount :
       /\ particles.potentialParticles[i].y = particles.potentialParticles[j].y
       /\ particles.potentialParticles[i].x + 2 = particles.potentialParticles[j].x

OpaqueImage == \A k \in 1..Len(imageData.pixels) : k % 4 = 0 => imageData.pixels[k] = 255

ScenarioA ==
  /\ OpaqueImage
  /\ config.resolution = 1 /\ config.alphaThreshold = 0 /\ config.colorFilter = "none"
  /\ config.useOriginalColors /\ ~config.colorClustering
  /\ particleEdits = <<>>
  /\ config.maxParticles >= imageData.width * imageData.height

\* C5: a fully opaque W x H image with resolution 1, alphaThreshold 0, no
\* filter, original colours without clustering, no edits and
\* maxParticles >= W*H yields exactly W*H particles, one per pixel in
\* raster order, each coloured "rgb(r,g,b)" with its own pixel's channels.
C5_OnePerPixel ==
  \A c \in Calls :
    (ScenarioA /\ c.state # "pending")
      => /\ c.state = "returned"
         /\ Len(c.value) = imageData.width * imageData.height
         /\ \A x \in 0..(imageData.width - 1), y \in 0..(imageData.height - 1) :
              LET p == c.value[y * imageData.width + x + 1]
                  index == (y * imageData.width + x) * 4
              IN  /\ p.x = x /\ p.y = y
                  /\ SubSeq(p.color, 1, 4) = <<"r", "g", "b", "(">>
                  /\ p.color[Len(p.color)] = ")"
                  /\ parseColor(p.color) = <<{imageData.pixels[index + 1]},
                                             {imageData.pixels[index + 2]},
                                             {imageData.pixels[index + 3]}>>

\* The 4 x 4 case: 16 particles.
C5_Witness ==
  /\ ScenarioA
  /\ imageData.width = 4 /\ imageData.height = 4
  /\ particles.state = "returned" /\ Len(particles.value) = 16

\* The pixels the raster scan visits that pass the alpha test.
SampledPixels ==
  LET gap == IF config.resolution > 1 THEN config.resolution ELSE 1
      half == gap \div 2
  IN  {pt \in [x : 0..(imageData.width - 1), y : 0..(imageData.height - 1)] :
         /\ pt.x >= half /\ pt.x < imageData.width - half /\ (pt.x - half) % gap = 0
         /\ pt.y >= half /\ pt.y < imageData.height - half /\ (pt.y - half) % gap = 0
         /\ imageData.pixels[(pt.y * imageData.width + pt.x) * 4 + 4]
              >= config.alphaThreshold}

\* The point is outside the circle of every delete edit; an edit without a
\* radius has the default radius.
OutsideEveryCircle(pt) ==
  \A k \in 1..Len(particleEdits) :
    particleEdits[k].type = "delete" =>
      LET r == IF particleEdits[k].radius = {} THEN DefaultRadius
               ELSE Val(particleEdits[k].radius)
      IN  DistSq(pt, particleEdits[k]) >= r * r

ScenarioB ==
  /\ OpaqueImage
  /\ imageData.width = 4 /\ imageData.height = 4
  /\ config = BaseConfig
  /\ particleEdits = <<DeleteEdit(2, 2, {1})>>

\* C27 (as claimed): a delete edit removes nothing outside its circle:
\* every candidate (image-derived or added) whose Euclidean distance to
\* every delete-edit centre is at least that edit's radius is kept by
\* extraction, so on the 4 x 4 opaque image one delete edit at (2, 2) with
\* radius 1 leaves exactly 15 particles, all pixels except (2, 2).
C27_DeleteKeepsOutside ==
  \A c \in Returned :
    /\ \A pt \in SampledPixels :
         OutsideEveryCircle(pt) =>
           \E j \in 1..c.rasterCount :
             c.potentialParticles[j].x = pt.x /\ c.potentialParticles[j].y = pt.y
    /\ \A k \in 1..Len(particleEdits) :
         (particleEdits[k].type = "add" /\ OutsideEveryCircle(particleEdits[k])) =>
           \E j \in (c.rasterCount + 1)..Len(c.potentialParticles) :
             /\ c.potentialParticles[j].x = particleEdits[k].x
             /\ c.potentialParticles[j].y = particleEdits[k].y
    /\ ScenarioB =>
         /\ Len(c.value) = 15
         /\ {[x |-> c.value[j].x, y |-> c.value[j].y] : j \in 1..15}
              = [x : 0..3, y : 0..3] \ {[x |-> 2, y |-> 2]}

\* The same for delete edits with a radius above 0 or none.
DeleteKeepsOutsidePositiveRadius ==
  (\A k \in 1..Len(particleEdits) : particleEdits[k].radius # {0})
    => C27_DeleteKeepsOutside

\* Scenario B has been extracted.
ScenarioBExtracted == ScenarioB /\ particles.state = "returned"

\* C6: in the candidate list the image-derived particles come first, in
\* raster order (increasing y, then increasing x); the particles of add
\* edits follow, in the order of their edits in the edit list, wherever
\* delete or modify edits stand in that list.
C6_RasterThenAddsInOrder ==
  \A c \in Returned :
    LET pot == c.potentialParticles
        nAdd == Len(pot) - c.rasterCount
    IN  /\ \A i, j \in 1..c.rasterCount :
             i < j => (pot[i].y < pot[j].y \/ (pot[i].y = pot[j].y /\ pot[i].x < pot[j].x))
        /\ \E f \in [1..nAdd -> 1..Len(particleEdits)] :
             /\ \A i, j \in 1..nAdd : i < j => f[i] < f[j]
             /\ \A i \in 1..nAdd :
                  /\ particleEdits[f[i]].type = "add"
                  /\ pot[c.rasterCount + i].x = particleEdits[f[i]].x
                  /\ pot[c.rasterCount + i].y = particleEdits[f[i]].y
                  /\ pot[c.rasterCount + i].optionalMasks = particleEdits[f[i]].optionalMasks
                  /\ particleEdits[f[i]].color \in {{}, {pot[c.rasterCount + i].color}}

\* Two add edits with a modify or delete edit between them both produced
\* particles, after at least two image-derived ones.
C6_Witness ==
  /\ particles.state = "returned"
  /\ particles.rasterCount >= 2
  /\ Len(particles.potentialParticles) = particles.rasterCount + 2
  /\ Len(particleEdits) = 3
  /\ particleEdits[1].type = "add" /\ particleEdits[3].type = "add"
  /\ particleEdits[2].type # "add"
  /\ particleEdits[1].x # particleEdits[3].x


(***************************************************************************)
(* SpecQuant: one call of quantizeColors, as extractParticleData makes it  *)
(* when useOriginalColors and colorClustering are both set.  The buffer    *)
(* holds up to MaxSamples sampled pixels (every 10th pixel) with           *)
(* transparent pixels between them.                                        *)
(***************************************************************************)
\* The RGBA values a sampled pixel takes: two opaque colours, one pixel
\* with alpha exactly 128 (not sampled) and one with alpha 129 (sampled).
SampledPixelChoices ==
  {<<255, 0, 0, 255>>, <<0, 0, 255, 255>>, <<10, 20, 30, 128>>, <<0, 1, 0, 129>>}

\* The byte array of an image whose k-th sampled pixel is px[k].
QuantBuffer(px) ==
  [b \in 1..(SampleStrideBytes * (Len(px) - 1) + 4) |->
     IF (b - 1) % SampleStrideBytes < 4
     THEN px[((b - 1) \div SampleStrideBytes) + 1][((b - 1) % SampleStrideBytes) + 1]
     ELSE 0]

QuantBuffers ==
  UNION {{QuantBuffer(px) : px \in [1..n -> SampledPixelChoices]} : n \in 1..MaxSamples}

QuantPending == [state |-> "pending", value |-> <<>>]

InitQuant ==
  /\ qImage \in QuantBuffers
  /\ qClusterCount \in 1..MaxClusters
  /\ qResult = QuantPending
  /\ IdleExtract
  /\ IdleSpring
  /\ IdleEngine
  /\ IdleOther

\* particleUtils.ts: palette = quantizeColors(imageData, clusterCount)
Quantize ==
  /\ qResult.state = "pending"
  /\ qResult' = quantizeColors(qImage, qClusterCount)
  /\ UNCHANGED <<qImage, qClusterCount>>
  /\ UNCHANGED <<extractVars, springVars, engineVars, otherVars>>

NextQuant == Quantize

SpecQuant == InitQuant /\ [][NextQuant]_vars

(***************************************************************************)
(* Claims about the quantizer, checked under SpecQuant.                    *)
(***************************************************************************)
Fallback == <<(<<"#", "f", "f", "f", "f", "f", "f">>)>>

InRange(v) == ~IsNaN(v) /\ Val(v) \in 0..255

ParsesToRgb(str) ==
  LET rgb == parseColor(str)
  IN  InRange(rgb[1]) /\ InRange(rgb[2]) /\ InRange(rgb[3])

\* C7: for every pixel buffer and every clusterCount >= 1, quantizeColors
\* returns without throwing, and returns the single fallback "#ffffff" when
\* no sampled pixel has alpha > 128 and otherwise exactly clusterCount
\* strings, each parsing to an RGB triple with all channels in 0..255, also
\* when fewer than clusterCount pixels qualify as samples.
C7_QuantizeTotal ==
  qResult.state # "pending" =>
    /\ qResult.state = "returned"
    /\ IF Len(SampleColors(qImage, 0)) = 0
       THEN qResult.value = Fallback
       ELSE /\ Len(qResult.value) = qClusterCount
            /\ \A j \in 1..Len(qResult.value) : ParsesToRgb(qResult.value[j])


(***************************************************************************)
(* SpecSpring: the physics loop of animate for one particle (pCount = 1),  *)
(* from initParticles on.  Positions and velocities are numbers of         *)
(* 1/SimScale pixels.  friction is 0.25 or 0.75 and returnSpeed is 0.25    *)
(* with particleSpeed 1 or 2, so a tick divides by 4 twice and, for        *)
(* MaxTicks ticks, every product and sum of the code is a multiple of      *)
(* 1/SimScale below 2^53: the doubles of the code hold exactly these       *)
(* values.  Mouse interaction, idle animation and bounce are switched off  *)
(* in the configuration.                                                   *)
(***************************************************************************)
\* Four bits for each tick and one for the half pixel of a centre.
SimScale == Pow2(4 * MaxTicks + 1)

Abs(a) == IF a < 0 THEN -a ELSE a

Sgn(a) == IF a < 0 THEN -1 ELSE IF a > 0 THEN 1 ELSE 0

SimImages == {[width |-> 8, height |-> 8], [width |-> 5, height |-> 4]}

\* The motion fields of the configuration; friction4 and returnSpeed4 are
\* friction and returnSpeed in quarters.
SimConfigs ==
  [friction4 : {1, 3}, returnSpeed4 : {1}, particleSpeed : {1, 2},
   enableInitialAnimation : BOOLEAN, enableMouseInteraction : {FALSE},
   enableIdleAnimation : {FALSE}, enableBounce : {FALSE},
   autoPerformance : {{}}, particleShape : {{}}]

\* The origins tried: the corners, edge midpoints and middle pixel.
SimOrigins(img) ==
  {[x |-> ox, y |-> oy] : ox \in {0, img.width \div 2, img.width - 1},
                          oy \in {0, img.height \div 2, img.height - 1}}

\* initParticles: the particle starts at rest, at the centre of the image
\* when the initial animation is enabled and at its origin otherwise.
NewParticle(img, cfg, origin) ==
  LET centerX == (img.width * SimScale) \div 2
      centerY == (img.height * SimScale) \div 2
  IN  [x |-> IF cfg.enableInitialAnimation THEN centerX ELSE origin.x * SimScale,
       y |-> IF cfg.enableInitialAnimation THEN centerY ELSE origin.y * SimScale,
       originX |-> origin.x * SimScale,
       originY |-> origin.y * SimScale,
       vx |-> 0,
       vy |-> 0]

\* initParticles and resetAnimation.
InitSpring ==
  /\ simConfig \in SimConfigs
  /\ \E img \in SimImages : \E origin \in SimOrigins(img) :
       particle = NewParticle(img, simConfig, origin)
  /\ particlesActivated = IF simConfig.enableInitialAnimation THEN 0 ELSE 1
  /\ springTicks = 0
  /\ IdleExtract
  /\ IdleQuant
  /\ IdleEngine
  /\ IdleOther

\* The spring pushes the particle away from its origin.
PhysicsStepRepelled(pt, cfg) ==
  LET returnSpeed == cfg.returnSpeed4 * cfg.particleSpeed
      vx == ((pt.vx - ((pt.originX - pt.x) * returnSpeed) \div 4) * cfg.friction4) \div 4
      vy == ((pt.vy - ((pt.originY - pt.y) * returnSpeed) \div 4) * cfg.friction4) \div 4
  IN  [pt EXCEPT !.vx = vx, !.vy = vy, !.x = pt.x + vx, !.y = pt.y + vy]

\* The spring update of an activated particle with no bounce:
\* v += (origin - pos) * returnSpeed; v *= friction; pos += v.
PhysicsStep(pt, cfg) ==
  LET returnSpeed == cfg.returnSpeed4 * cfg.particleSpeed
      vx == ((pt.vx + ((pt.originX - pt.x) * returnSpeed) \div 4) * cfg.friction4) \div 4
      vy == ((pt.vy + ((pt.originY - pt.y) * returnSpeed) \div 4) * cfg.friction4) \div 4
  IN  [pt EXCEPT !.vx = vx, !.vy = vy, !.x = pt.x + vx, !.y = pt.y + vy]

\* One call of animate.  due is Math.floor(elapsed * particlesPerSecond)
\* capped at pCount = 1.  An activated particle completes the animation,
\* so the bounce constants never apply to it; the mouse and idle branches
\* are skipped by the configuration.
AnimateParticle ==
  /\ springTicks < MaxTicks
  /\ ~simConfig.enableMouseInteraction
  /\ ~simConfig.enableIdleAnimation
  /\ ~simConfig.enableBounce
  /\ \E due \in 0..1 :
       LET activated == IF simConfig.enableInitialAnimation /\ particlesActivated < 1
                        THEN due ELSE particlesActivated
           isActivated == 0 < activated
       IN  /\ particlesActivated' = activated
           /\ particle' = IF isActivated THEN PhysicsStep(particle, simConfig)
                          ELSE particle
           /\ springTicks' = IF isActivated THEN springTicks + 1 ELSE springTicks
  /\ UNCHANGED simConfig
  /\ UNCHANGED <<extractVars, quantVars, engineVars, otherVars>>

NextSpring == AnimateParticle

SpecSpring == InitSpring /\ [][NextSpring]_vars

\* Every value is a multiple of the unit left after the ticks taken, so no
\* division of PhysicsStep rounds.
SpringArithmeticExact ==
  LET unit == Pow2(4 * (MaxTicks - springTicks))
      \* 4 * unit divides SimScale / 2 before the last tick is taken
  IN  /\ particle.x % unit = 0 /\ particle.y % unit = 0
      /\ particle.vx % unit = 0 /\ particle.vy % unit = 0

(***************************************************************************)
(* Claims about the spring, checked under SpecSpring.  The particle is     *)
(* released at rest, so it stays on the line through its start and its     *)
(* origin, and comparing the sums |dx| + |dy| compares the distances.      *)
(***************************************************************************)
Away(pt) == Abs(pt.x - pt.originX) + Abs(pt.y - pt.originY)

\* A sixteenth of a pixel.
Epsilon == SimScale \div 16

PhysicsTick == springTicks' = springTicks + 1

\* The velocity does not point away from the origin on either axis.
NotMovingAway(pt) ==
  /\ Sgn(pt.vx) * Sgn(pt.x - pt.originX) <= 0
  /\ Sgn(pt.vy) * Sgn(pt.y - pt.originY) <= 0

\* nxt lies on the same side of the origin as pt, which is not at it.
ShortOfOrigin(pt, nxt) ==
  /\ Sgn(nxt.x - nxt.originX) = Sgn(pt.x - pt.originX)
  /\ Sgn(nxt.y - nxt.originY) = Sgn(pt.y - pt.originY)
  /\ Away(pt) > 0

\* C8 (as claimed): with no pointer and no idle force and friction in
\* (0,1), every tick strictly decreases the distance of an active particle
\* to its origin until the particle is within a small epsilon of it; the
\* particle never overshoots and moves away again.
C8_DistanceStrictlyDecreases ==
  [][PhysicsTick => (Away(particle) <= Epsilon \/ Away(particle') < Away(particle))]_vars

\* C8 (amended): a tick that starts with the particle farther than epsilon
\* from its origin and not moving away from it, and ends with it short of
\* the origin (not at it, not across it), strictly decreases the distance
\* to the origin.
C8_ApproachesUntilCrossing ==
  [][(/\ PhysicsTick
      /\ Away(particle) > Epsilon
      /\ NotMovingAway(particle)
      /\ ShortOfOrigin(particle, particle'))
       => Away(particle') < Away(particle)]_vars

\* After two ticks the particle is still well away from its origin and
\* moving toward it.
C8_Witness ==
  /\ springTicks >= 2
  /\ Away(particle) > Epsilon
  /\ particle.vx # 0
  /\ NotMovingAway(particle)


(***************************************************************************)
(* SpecEngine: the life of a mounted ParticlePreview with an image loaded: *)
(* animation frames, configuration changes, new images, replay, pointer    *)
(* events and remounts, and what they do to the quality controller, the    *)
(* particle array and the activation count.  An optional configuration     *)
(* field is {} when the configuration object does not have it.             *)
(***************************************************************************)
ActivityWindow == 60

SlowFrameMs == 20

MouseActiveAbove == -500

\* Frame times in milliseconds: a fast, a normal and a slow frame.
FrameTimes == {8, 16, 24}

\* The lengths of particleData: an image with no particle, or MaxCount.
Counts == {0, MaxCount}

Shapes == {"circle", "square"}

EngineConfig(enableInitialAnimation, autoPerformance, particleShape) ==
  [friction4 |-> 3, returnSpeed4 |-> 1, particleSpeed |-> 1,
   enableInitialAnimation |-> enableInitialAnimation,
   enableMouseInteraction |-> FALSE, enableIdleAnimation |-> FALSE,
   enableBounce |-> FALSE,
   autoPerformance |-> autoPerformance, particleShape |-> particleShape]

\* app/page.tsx: defaultConfig sets neither autoPerformance nor particleShape.
defaultConfig == EngineConfig(FALSE, {}, {})

Undecided == [qualityMode |-> {}, slowFrameCount |-> 0, activityFrameCount |-> 0]

QualityRefs ==
  [qualityMode |-> qualityMode, slowFrameCount |-> slowFrameCount,
   activityFrameCount |-> activityFrameCount]

SetQualityRefs(q) ==
  /\ qualityMode' = q.qualityMode
  /\ slowFrameCount' = q.slowFrameCount
  /\ activityFrameCount' = q.activityFrameCount

ParticleRefs == [pCount |-> pCount, particlesActivated |-> particlesActivated]

SetParticleRefs(r) ==
  /\ pCount' = r.pCount
  /\ particlesActivated' = r.particlesActivated

\* The effect runs on every render.
ResetQualityEffectEveryRender(cfg, next, q) == Undecided

\* useEffect(() => { reset }, [config.autoPerformance, config.particleShape]):
\* runs when a dependency of the new render differs from the last one.
ResetQualityEffect(cfg, next, q) ==
  IF next.autoPerformance # cfg.autoPerformance \/ next.particleShape # cfg.particleShape
  THEN Undecided
  ELSE q

\* initParticles: returns early on an empty particleData; else builds a new
\* particle array and resets the animation or activates every particle.
initParticles(cfg, data, refs) ==
  IF data = 0 THEN refs
  ELSE [pCount |-> data,
        particlesActivated |-> IF cfg.enableInitialAnimation THEN 0 ELSE data]

\* The controller measures also after it has decided.
MeasureFrameUnlocked(cfg, q, isActive, frameTime) ==
  IF cfg.autoPerformance = {TRUE} /\ isActive
  THEN LET activity == q.activityFrameCount + 1
           slow == IF frameTime > SlowFrameMs THEN q.slowFrameCount + 1
                   ELSE q.slowFrameCount
       IN  [qualityMode |-> IF activity >= ActivityWindow
                            THEN (IF 10 * slow > 3 * activity THEN {"squares"}
                                  ELSE {"circles"})
                            ELSE q.qualityMode,
            slowFrameCount |-> slow,
            activityFrameCount |-> activity]
  ELSE q

\* The controller measures inactive frames too.
MeasureFrameAlways(cfg, q, isActive, frameTime) ==
  IF cfg.autoPerformance = {TRUE} /\ q.qualityMode = {}
  THEN LET activity == q.activityFrameCount + 1
           slow == IF frameTime > SlowFrameMs THEN q.slowFrameCount + 1
                   ELSE q.slowFrameCount
       IN  [qualityMode |-> IF activity >= ActivityWindow
                            THEN (IF 10 * slow > 3 * activity THEN {"squares"}
                                  ELSE {"circles"})
                            ELSE q.qualityMode,
            slowFrameCount |-> slow,
            activityFrameCount |-> activity]
  ELSE q

\* animate, the quality controller.  lastFrameTimeRef has just been set to
\* performance.now(), which is positive.  slowRatio > 0.3 is decided on
\* integers: 18 / 60 is the double 0.3, and 19 / 60 is above it.
MeasureFrame(cfg, q, isActive, frameTime) ==
  IF cfg.autoPerformance = {TRUE} /\ q.qualityMode = {} /\ isActive
  THEN LET activity == q.activityFrameCount + 1
           slow == IF frameTime > SlowFrameMs THEN q.slowFrameCount + 1
                   ELSE q.slowFrameCount
       IN  [qualityMode |-> IF activity >= ActivityWindow
                            THEN (IF 10 * slow > 3 * activity THEN {"squares"}
                                  ELSE {"circles"})
                            ELSE q.qualityMode,
            slowFrameCount |-> slow,
            activityFrameCount |-> activity]
  ELSE q

\* The frames of the measuring window so far: a frame belongs to the window
\* when auto-performance is enabled, the mode is undecided and the frame is
\* active (the initial animation in progress or the pointer engaged); it is
\* slow when its frameTime is above 20 ms.
Observe(cfg, mode, isActive, frameTime) ==
  IF cfg.autoPerformance = {TRUE} /\ mode = {} /\ isActive
  THEN [active |-> observed.active + 1,
        slow |-> IF frameTime > SlowFrameMs THEN observed.slow + 1 ELSE observed.slow]
  ELSE observed

\* A window ends, and the next one starts, when the effects of a render or
\* of a mount leave the controller in its initial state.
WindowAfterEffects == IF QualityRefs' = Undecided THEN NoFrames ELSE observed

\* animate, the shape drawn: squares once the controller has locked them,
\* else config.particleShape.
RenderShape(cfg, mode) ==
  IF cfg.autoPerformance = {TRUE} /\ mode = {"squares"} THEN {"square"} ELSE cfg.particleShape

\* After the first upload: the refs hold their initial values and the setup
\* effect has called initParticles on an empty particle array.
InitEngine ==
  /\ simConfig = defaultConfig
  /\ dataCount \in Counts
  /\ qualityMode = {}
  /\ slowFrameCount = 0
  /\ activityFrameCount = 0
  /\ mouse = MouseOff
  /\ observed = NoFrames
  /\ \E r \in {initParticles(simConfig, dataCount, [pCount |-> 0, particlesActivated |-> 0])} :
       pCount = r.pCount /\ particlesActivated = r.particlesActivated
  /\ particle = IdleParticle
  /\ springTicks = 0
  /\ IdleExtract
  /\ IdleQuant
  /\ IdleOther

\* One animation frame.  due is Math.floor(elapsed * particlesPerSecond)
\* capped at pCount; the time since resetAnimation only grows.
AnimateFrame ==
  /\ \E frameTime \in FrameTimes : \E due \in particlesActivated..pCount :
       LET activated == IF simConfig.enableInitialAnimation /\ particlesActivated < pCount
                        THEN due ELSE particlesActivated
           isAnimationComplete == activated >= pCount
           isMouseActive == mouse.x > MouseActiveAbove /\ mouse.y > MouseActiveAbove
           isActive == ~isAnimationComplete \/ isMouseActive
       IN  /\ particlesActivated' = activated
           /\ SetQualityRefs(MeasureFrame(simConfig, QualityRefs, isActive, frameTime))
           /\ observed' = Observe(simConfig, qualityMode, isActive, frameTime)
  /\ UNCHANGED <<simConfig, particle, springTicks, mouse, pCount, dataCount>>
  /\ UNCHANGED <<extractVars, quantVars, otherVars>>

\* A render with new props: the quality effect, then the setup effect, which
\* cancels the pending frame, calls initParticles and requests a frame.
Rerender(next, data) ==
  /\ simConfig' = next
  /\ dataCount' = data
  /\ SetQualityRefs(ResetQualityEffect(simConfig, next, QualityRefs))
  /\ SetParticleRefs(initParticles(next, data, ParticleRefs))
  /\ observed' = WindowAfterEffects
  /\ UNCHANGED <<particle, springTicks, mouse>>
  /\ UNCHANGED <<extractVars, quantVars, otherVars>>

\* ControlPanel: the checkbox of autoPerformance or enableInitialAnimation is
\* toggled, or another particleShape is selected.
ConfigChanges(cfg) ==
  {[cfg EXCEPT !.autoPerformance = {cfg.autoPerformance # {TRUE}}],
   [cfg EXCEPT !.enableInitialAnimation = ~cfg.enableInitialAnimation]}
  \cup {[cfg EXCEPT !.particleShape = {shape}] : shape \in Shapes \ cfg.particleShape}

\* handleConfigChange
ChangeConfig == \E next \in ConfigChanges(simConfig) : Rerender(next, dataCount)

\* handleReset: setConfig(defaultConfig)
ResetConfig ==
  /\ simConfig # defaultConfig
  /\ Rerender(defaultConfig, dataCount)

\* handleImageLoad
NewImage == \E data \in Counts : Rerender(simConfig, data)

\* The Replay Animation button calls initParticles.
Replay ==
  /\ simConfig.enableInitialAnimation
  /\ SetParticleRefs(initParticles(simConfig, dataCount, ParticleRefs))
  /\ UNCHANGED <<simConfig, dataCount, qualityMode, slowFrameCount, activityFrameCount, observed,
                 particle, springTicks, mouse>>
  /\ UNCHANGED <<extractVars, quantVars, otherVars>>

MouseMove ==
  /\ mouse' = [x |-> 10, y |-> 10]
  /\ UNCHANGED <<simConfig, dataCount, qualityMode, slowFrameCount, activityFrameCount, observed,
                 particle, springTicks, pCount, particlesActivated>>
  /\ UNCHANGED <<extractVars, quantVars, otherVars>>

MouseLeave ==
  /\ mouse' = MouseOff
  /\ UNCHANGED <<simConfig, dataCount, qualityMode, slowFrameCount, activityFrameCount, observed,
                 particle, springTicks, pCount, particlesActivated>>
  /\ UNCHANGED <<extractVars, quantVars, otherVars>>

\* The user leaves the preview tab and returns: a new component instance,
\* whose refs hold their initial values when its effects run.
Remount ==
  /\ SetQualityRefs(Undecided)
  /\ mouse' = MouseOff
  /\ SetParticleRefs(initParticles(simConfig, dataCount,
                                   [pCount |-> 0, particlesActivated |-> 0]))
  /\ observed' = WindowAfterEffects
  /\ UNCHANGED <<simConfig, dataCount, particle, springTicks>>
  /\ UNCHANGED <<extractVars, quantVars, otherVars>>

NextEngine ==
  \/ AnimateFrame
  \/ ChangeConfig
  \/ ResetConfig
  \/ NewImage
  \/ Replay
  \/ MouseMove
  \/ MouseLeave
  \/ Remount

SpecEngine == InitEngine /\ [][NextEngine]_vars


(***************************************************************************)
(* Claims about the quality controller, checked under SpecEngine.          *)
(***************************************************************************)
\* C9: once qualityMode is "circles" or "squares", no animation frame
\* changes it, whether the frame is slow or fast, active or inactive.
C9_DecisionLocked ==
  [][(qualityMode # {} /\ AnimateFrame) => qualityMode' = qualityMode]_vars

\* The controller has decided after 60 measured frames, and the animation
\* is complete with the pointer away: the frames that follow are inactive.
C9_Witness ==
  /\ qualityMode # {}
  /\ activityFrameCount = ActivityWindow
  /\ simConfig.enableInitialAnimation
  /\ pCount > 0
  /\ particlesActivated = pCount
  /\ mouse = MouseOff

\* C21: with auto-performance enabled and the mode undecided the controller
\* counts only active frames; it decides on the tick where the 60th active
\* frame of the window is observed; it locks the shape to square if and only
\* if more than 30% of the 60 observed frames had frameTime > 20 ms (at least
\* 19 of 60), and else draws the configured shape; with auto-performance
\* disabled it never decides.
C21_DecidesOnSixtiethActiveFrame ==
  /\ simConfig.autoPerformance # {TRUE} => qualityMode = {}
  /\ observed.active <= ActivityWindow
  /\ activityFrameCount = observed.active
  /\ qualityMode = {} <=> observed.active < ActivityWindow
  /\ qualityMode = {"squares"} <=>
       (observed.active = ActivityWindow /\ 10 * observed.slow > 3 * ActivityWindow)
  /\ qualityMode = {"squares"} <=> (observed.active = ActivityWindow /\ observed.slow >= 19)
  /\ RenderShape(simConfig, qualityMode) =
       IF observed.active = ActivityWindow /\ observed.slow >= 19 THEN {"square"}
       ELSE simConfig.particleShape

\* Squares were locked on exactly 19 slow frames of 60, with the animation
\* complete and the pointer away at the end.
C21_Witness ==
  /\ simConfig.autoPerformance = {TRUE}
  /\ qualityMode = {"squares"}
  /\ observed = [active |-> ActivityWindow, slow |-> 19]
  /\ simConfig.particleShape = {"circle"}

\* The configured shape was kept on 18 slow frames of 60.
C21_WitnessKept ==
  /\ simConfig.autoPerformance = {TRUE}
  /\ qualityMode = {"circles"}
  /\ observed = [active |-> ActivityWindow, slow |-> 18]

\* A step of a handler that calls initParticles.
InitParticlesCalled == ChangeConfig \/ ResetConfig \/ NewImage \/ Replay \/ Remount

\* A step in which initParticles builds a new particle array (it returns
\* early when particleData is empty).
Reinitialized == InitParticlesCalled /\ dataCount' > 0

\* A step that returns a decision or a counter to its initial value.
ResetStep == QualityRefs # Undecided /\ QualityRefs' = Undecided

\* A step that changes a dependency of the quality effect.
KeyChange ==
  \/ simConfig'.autoPerformance # simConfig.autoPerformance
  \/ simConfig'.particleShape # simConfig.particleShape

\* C10 (as claimed): the quality decision and its frame counters return to
\* undecided exactly when the particle array is re-initialized: every
\* re-initialization (new image, configuration change, replay) resets them
\* and nothing else does.
C10_ResetExactlyOnReinit ==
  [][/\ Reinitialized => QualityRefs' = Undecided
     /\ ResetStep => InitParticlesCalled]_vars

\* C10 (amended): the quality decision and its frame counters return to
\* undecided exactly when config.autoPerformance or config.particleShape
\* changes or the preview is mounted anew; any other re-initialization of
\* the particle array (new image, other configuration change, replay)
\* leaves them as they are.
C10_ResetExactlyOnKeyChange ==
  [][/\ (KeyChange \/ Remount) => QualityRefs' = Undecided
     /\ ResetStep => (KeyChange \/ Remount)
     /\ (Reinitialized /\ ~KeyChange /\ ~Remount) => QualityRefs' = QualityRefs]_vars

\* The controller has decided and a replayed animation is at its start.
C10_Witness ==
  /\ qualityMode = {"squares"}
  /\ activityFrameCount = ActivityWindow
  /\ simConfig.enableInitialAnimation
  /\ pCount = MaxCount
  /\ particlesActivated = 0
  /\ mouse = MouseOff


\* C13: once extraction has yielded the empty particle list, every frame of
\* the engine simulates and draws zero particles, also when a non-empty
\* particle set had been loaded before.
C13_EmptyListRunsNothing ==
  [][(dataCount = 0 /\ AnimateFrame) => (pCount = 0 /\ particlesActivated' = 0)]_vars

(***************************************************************************)
(* SpecExport: the live preview and the component that                     *)
(* generateComponentCode emits, started from the same extracted particle   *)
(* list and configuration and run frame by frame on the same clock, with   *)
(* the pointer away.  Coordinates of the particle data are numbers of half *)
(* pixels (an add edit keeps the fractional position of the click);        *)
(* positions and velocities of the particles are numbers of 1/SimScale     *)
(* pixels as in SpecSpring.                                                *)
(***************************************************************************)
ExportImage == [width |-> 8, height |-> 8]

\* Math.round of a number of half pixels, as a number of half pixels.
MathRound(h) == 2 * ((h + 1) \div 2)

\* formatParticle writes x:${Math.round(p.x)}, y:${Math.round(p.y)} into
\* PARTICLE_DATA; the generated component reads these numbers back.
formatParticle(p) == [x |-> MathRound(p.x), y |-> MathRound(p.y)]

PARTICLE_DATA(particleList) ==
  [i \in 1..Len(particleList) |-> formatParticle(particleList[i])]

\* Array.prototype.sort with the comparator key(a) - key(b): stable, so an
\* entry goes after the entries with a smaller key and after the earlier
\* entries with the same key.
SortedByKey(seq, keys) ==
  LET rank(i) == Cardinality({j \in 1..Len(seq) :
                     keys[j] < keys[i] \/ (keys[j] = keys[i] /\ j < i)}) + 1
  IN  [r \in 1..Len(seq) |-> seq[CHOOSE i \in 1..Len(seq) : rank(i) = r]]

\* The sort of initParticles.  Math.sqrt is increasing, so the squared
\* distances to the centre order the entries as the distances do.
SortForShooting(data, cfg, img) ==
  IF ~cfg.enableInitialAnimation THEN data
  ELSE IF cfg.shootingDirection = "top-to-bottom"
  THEN SortedByKey(data, [i \in 1..Len(data) |-> data[i].y])
  ELSE IF cfg.shootingDirection = "all-directions"
  THEN SortedByKey(data, [i \in 1..Len(data) |->
                            (data[i].x - img.width) * (data[i].x - img.width)
                              + (data[i].y - img.height) * (data[i].y - img.height)])
  ELSE data

\* initParticles, of the preview and of the generated component alike: the
\* particles start at rest, at the centre or at their origin.
BuildSim(data, cfg, img) ==
  LET sorted == SortForShooting(data, cfg, img)
      half == SimScale \div 2
  IN  [particles |->
         [i \in 1..Len(sorted) |->
            [x |-> IF cfg.enableInitialAnimation THEN img.width * half
                   ELSE sorted[i].x * half,
             y |-> IF cfg.enableInitialAnimation THEN img.height * half
                   ELSE sorted[i].y * half,
             originX |-> sorted[i].x * half,
             originY |-> sorted[i].y * half,
             vx |-> 0,
             vy |-> 0]],
       particlesActivated |-> IF cfg.enableInitialAnimation THEN 0 ELSE Len(sorted)]

\* One frame of animate for a whole particle array: the activation count,
\* then the physics loop over the activated particles.
SimFrame(sim, cfg, due) ==
  LET count == Len(sim.particles)
      activated == IF cfg.enableInitialAnimation /\ sim.particlesActivated < count
                   THEN Min(due, count) ELSE sim.particlesActivated
  IN  [particles |-> [i \in 1..count |->
                        IF i <= activated THEN PhysicsStep(sim.particles[i], cfg)
                        ELSE sim.particles[i]],
       particlesActivated |-> activated]

\* Raster particles have whole coordinates; the last two points are add
\* edits placed between pixels.
DataPoints ==
  {[x |-> 2, y |-> 4], [x |-> 12, y |-> 2], [x |-> 3, y |-> 5], [x |-> 9, y |-> 3]}

DataLists == UNION {[1..n -> DataPoints] : n \in 1..MaxData}

ExportConfigs ==
  [friction4 : {3}, returnSpeed4 : {1}, particleSpeed : {2},
   enableInitialAnimation : BOOLEAN,
   shootingDirection : {"top-to-bottom", "all-directions"},
   enableMouseInteraction : {FALSE}, enableIdleAnimation : {FALSE},
   enableBounce : {FALSE}, autoPerformance : {{}}, particleShape : {{}}]

InitExport ==
  /\ simConfig \in ExportConfigs
  /\ simData \in DataLists
  /\ liveSim = BuildSim(simData, simConfig, ExportImage)
  /\ exportSim = BuildSim(PARTICLE_DATA(simData), simConfig, ExportImage)
  /\ exportTicks = 0
  /\ particle = IdleParticle
  /\ particlesActivated = 0
  /\ springTicks = 0
  /\ IdleExtract
  /\ IdleQuant
  /\ IdleEngine
  /\ IdleExporter
  /\ IdlePointer
  /\ IdleParse
  /\ IdleLoop
  /\ IdlePanel
  /\ IdleAct
  /\ IdleRest

\* One frame of both loops at the same time: due is
\* Math.floor(elapsed * particlesPerSecond), the same number in both.
FrameOfBoth ==
  /\ exportTicks < MaxTicks
  /\ \E due \in liveSim.particlesActivated..Len(simData) :
       /\ liveSim' = SimFrame(liveSim, simConfig, due)
       /\ exportSim' = SimFrame(exportSim, simConfig, due)
  /\ exportTicks' = exportTicks + 1
  /\ UNCHANGED <<simData, simConfig, particle, particlesActivated, springTicks>>
  /\ UNCHANGED notExport

NextExport == FrameOfBoth

SpecExport == InitExport /\ [][NextExport]_vars

(***************************************************************************)
(* Claims about the exported component, checked under SpecExport.          *)
(***************************************************************************)
\* An activated particle that sits on its origin with no velocity.
AtRest(sim, i) ==
  /\ i <= sim.particlesActivated
  /\ sim.particles[i].vx = 0 /\ sim.particles[i].vy = 0
  /\ sim.particles[i].x = sim.particles[i].originX
  /\ sim.particles[i].y = sim.particles[i].originY

\* The particle sits where extraction put some particle.
AtExtractedPosition(pt) ==
  \E k \in 1..Len(simData) :
    /\ pt.x = simData[k].x * (SimScale \div 2)
    /\ pt.y = simData[k].y * (SimScale \div 2)

\* C11: after every tick the exported component and the live preview hold
\* the same origin, position and velocity for every particle and the same
\* activation count, and a particle at rest, in either of them, is at the
\* position extraction gave it, also for add edits between pixels.
C11_ExportMatchesPreview ==
  exportTicks > 0 =>
    /\ exportSim = liveSim
    /\ \A i \in 1..Len(simData) :
         /\ AtRest(liveSim, i) => AtExtractedPosition(liveSim.particles[i])
         /\ AtRest(exportSim, i) => AtExtractedPosition(exportSim.particles[i])


(***************************************************************************)
(* SpecExporter: the CodeExporter component.  A piece of generated code is *)
(* a sequence of lines; the empty string is the empty sequence.            *)
(***************************************************************************)
Line(kind, data) == [kind |-> kind, data |-> data]

\* The object literal of one particle; its coordinates go through
\* Math.round.
ParticleLine(p) ==
  LET r == formatParticle([x |-> 2 * p.x, y |-> 2 * p.y])
  IN  Line("particle", {[x |-> r.x \div 2, y |-> r.y \div 2, c |-> p.color,
                         m |-> p.masked, om |-> p.optionalMasks]})

ParticleLines(list) == [i \in 1..Len(list) |-> ParticleLine(list[i])]

generateComponentCode(list, cfg, img, mode) ==
  (IF mode = "separate" THEN <<Line("dataImport", {})>> ELSE <<>>)
  \o (IF mode = "inline"
      THEN <<Line("dataConst", {})>> \o ParticleLines(list) ELSE <<>>)
  \o <<Line("component", {[width |-> img.width, height |-> img.height]})>>

generateParticleDataCode(list) ==
  <<Line("header", {[count |-> Len(list)]})>> \o ParticleLines(list)

\* The particleData memo.
ExporterParticleData(props, rnd) ==
  IF props.imageData = {} THEN [state |-> "returned", value |-> <<>>]
  ELSE LET r == extractParticleData(Val(props.imageData), props.config, props.maskData,
                                    props.optionalMasks, props.particleEdits, rnd)
       IN  [state |-> r.state, value |-> r.value]

\* A faulty data-code memo that does not look at imageData.
ExporterCodesUnguarded(props, mode, data) ==
  [state |-> "rendered",
   componentCode |->
     IF props.imageData = {} THEN <<>>
     ELSE generateComponentCode(data.value, props.config, Val(props.imageData), mode),
   dataCode |->
     IF mode # "separate" THEN <<>> ELSE generateParticleDataCode(data.value)]

\* The componentCode and dataCode memos, from the particleData memo.
ExporterCodes(props, mode, data) ==
  IF data.state = "threw"
  THEN [state |-> "threw", componentCode |-> <<>>, dataCode |-> <<>>]
  ELSE [state |-> "rendered",
        componentCode |->
          IF props.imageData = {} THEN <<>>
          ELSE generateComponentCode(data.value, props.config, Val(props.imageData), mode),
        dataCode |->
          IF mode # "separate" \/ props.imageData = {} THEN <<>>
          ELSE generateParticleDataCode(data.value)]

\* The functions a render calls to refill its memos.
ExporterCodeCalls(props, mode, data) ==
  IF data.state = "threw" THEN {}
  ELSE (IF props.imageData = {} THEN {} ELSE {"generateComponentCode"})
       \cup (IF mode # "separate" \/ props.imageData = {} THEN {}
             ELSE {"generateParticleDataCode"})

ExporterImages == {MakeImage(w, 1, p) : w \in 1..2, p \in {"opaque", "clear"}}

ExporterProps ==
  [imageData : {{}} \cup {{img} : img \in ExporterImages},
   config : {BaseConfig, [BaseConfig EXCEPT !.colorClustering = TRUE]},
   maskData : {{}},
   optionalMasks : {<<>>},
   particleEdits : {<<>>, <<AddEdit(2, 1, {}, {})>>}]

ExporterRnd(props) ==
  IF props.imageData = {} THEN {<<>>}
  ELSE RndChoices(Val(props.imageData), props.config)

\* The component is about to render for the first time.
InitExporter ==
  /\ exporterProps \in ExporterProps
  /\ exportMode = "inline"
  /\ copied = {}
  /\ exporterData = [state |-> "pending", value |-> <<>>]
  /\ exporterMemo = [NoCode EXCEPT !.state = "pending"]
  /\ exporterCalls = {}
  /\ IdleExtract
  /\ IdleQuant
  /\ IdleSpring
  /\ IdleEngine
  /\ IdleExport
  /\ IdlePointer
  /\ IdleParse
  /\ IdleLoop
  /\ IdlePanel
  /\ IdleAct
  /\ IdleRest

\* The first render fills the three memos.
FirstRender ==
  /\ exporterMemo.state = "pending"
  /\ \E rnd \in ExporterRnd(exporterProps) :
       exporterData' = ExporterParticleData(exporterProps, rnd)
  /\ exporterMemo' = ExporterCodes(exporterProps, exportMode, exporterData')
  /\ exporterCalls' =
       (IF exporterProps.imageData = {} THEN {} ELSE {"extractParticleData"})
         \cup ExporterCodeCalls(exporterProps, exportMode, exporterData')
  /\ UNCHANGED <<exporterProps, exportMode, copied>>
  /\ UNCHANGED notExporter

\* The parent passes other props: every memo is refilled.
ReceiveProps ==
  /\ exporterMemo.state = "rendered"
  /\ \E props \in ExporterProps \ {exporterProps} :
       /\ exporterProps' = props
       /\ \E rnd \in ExporterRnd(props) :
            exporterData' = ExporterParticleData(props, rnd)
       /\ exporterMemo' = ExporterCodes(props, exportMode, exporterData')
       /\ exporterCalls' =
            (IF props.imageData = {} THEN {} ELSE {"extractParticleData"})
              \cup ExporterCodeCalls(props, exportMode, exporterData')
  /\ UNCHANGED <<exportMode, copied>>
  /\ UNCHANGED notExporter

\* The export mode buttons, shown once an image is loaded: the particleData
\* memo is kept, the two code memos are refilled.
SetExportMode ==
  /\ exporterMemo.state = "rendered"
  /\ exporterProps.imageData # {}
  /\ \E mode \in {"inline", "separate"} \ {exportMode} :
       /\ exportMode' = mode
       /\ exporterMemo' = ExporterCodes(exporterProps, mode, exporterData)
       /\ exporterCalls' = ExporterCodeCalls(exporterProps, mode, exporterData)
  /\ UNCHANGED <<exporterProps, copied, exporterData>>
  /\ UNCHANGED notExporter

\* copyToClipboard of one of the two code blocks; no memo changes.
CopyToClipboard ==
  /\ exporterMemo.state = "rendered"
  /\ exporterProps.imageData # {}
  /\ \E id \in {"component"} \cup (IF exportMode = "separate" THEN {"data"} ELSE {}) :
       copied' = {id}
  /\ exporterCalls' = {}
  /\ UNCHANGED <<exporterProps, exportMode, exporterData, exporterMemo>>
  /\ UNCHANGED notExporter

\* The timer of copyToClipboard.
CopiedTimeout ==
  /\ exporterMemo.state = "rendered"
  /\ copied # {}
  /\ copied' = {}
  /\ exporterCalls' = {}
  /\ UNCHANGED <<exporterProps, exportMode, exporterData, exporterMemo>>
  /\ UNCHANGED notExporter

NextExporter ==
  FirstRender \/ ReceiveProps \/ SetExportMode \/ CopyToClipboard \/ CopiedTimeout

SpecExporter == InitExporter /\ [][NextExporter]_vars

\* C12: while no image is loaded the component code and the data code are
\* both the empty string, in either export mode, the render has not thrown
\* and it has called neither the extractor nor a generator.
C12_NoImageNoCode ==
  (exporterProps.imageData = {} /\ exporterMemo.state # "pending") =>
    /\ exporterMemo.state = "rendered"
    /\ exporterMemo.componentCode = <<>>
    /\ exporterMemo.dataCode = <<>>
    /\ exporterCalls = {}

\* The image has been taken away in separate mode, after code was shown.
C12_Witness ==
  /\ exporterProps.imageData = {}
  /\ exporterMemo.state = "rendered"
  /\ exportMode = "separate"
  /\ exporterMemo.componentCode = <<>>
  /\ exporterMemo.dataCode = <<>>


(***************************************************************************)
(* SpecPointer: the loop body of animate for one activated particle with   *)
(* the pointer force enabled, idle animation and bounce off.  Lengths are  *)
(* whole numbers of 1/PointerScale pixels and every product and quotient   *)
(* is cut to that resolution; a number is a set with one element, and the  *)
(* empty set stands for the non-finite results of a division by zero.      *)
(***************************************************************************)
PointerScale == 16

JsAdd(a, b) == IF IsNaN(a) \/ IsNaN(b) THEN NaN ELSE Num(Val(a) + Val(b))

JsNeg(a) == IF IsNaN(a) THEN NaN ELSE Num(-Val(a))

\* a * b / den with finite operands
JsScaled(a, b, den) ==
  IF IsNaN(a) \/ IsNaN(b) THEN NaN ELSE Num((Val(a) * Val(b)) \div den)

\* a / b: not finite when b is zero
JsDiv(a, b) ==
  IF IsNaN(a) \/ IsNaN(b) \/ b = Num(0) THEN NaN
  ELSE Num((Val(a) * PointerScale) \div Val(b))

\* Math.sqrt, cut to the resolution
MathSqrt(n) == CHOOSE r \in 0..n : r * r <= n /\ (r + 1) * (r + 1) > n

\* The values Math.sin(..) * Math.cos(..) of the turbulence mode can take.
TurbulenceValues == {-PointerScale, 0, PointerScale}

\* The switch on mouseInteractionMode: the change of (vx, vy).
PointerPush(cfg, nx, ny, force, turb) ==
  LET f == JsScaled(force, Num(cfg.mouseForce), 1)
  IN  IF cfg.mouseInteractionMode = "push"
      THEN [dvx |-> JsNeg(JsScaled(nx, f, PointerScale)),
            dvy |-> JsNeg(JsScaled(ny, f, PointerScale))]
      ELSE IF cfg.mouseInteractionMode = "pull"
      THEN [dvx |-> JsScaled(nx, f, PointerScale),
            dvy |-> JsScaled(ny, f, PointerScale)]
      ELSE IF cfg.mouseInteractionMode = "orbit"
      THEN LET orbitForce == JsScaled(f, Num(cfg.orbitSpeed10 * 3), 100)
           IN  [dvx |-> JsAdd(JsNeg(JsScaled(ny, orbitForce, PointerScale)),
                              JsScaled(nx, f, PointerScale * 10)),
                dvy |-> JsAdd(JsScaled(nx, orbitForce, PointerScale),
                              JsScaled(ny, f, PointerScale * 10))]
      ELSE IF cfg.mouseInteractionMode = "turbulence"
      THEN LET turbulenceForce == JsScaled(f, Num(cfg.turbulenceIntensity10 * 5), 100)
           IN  [dvx |-> JsScaled(Num(turb.x), turbulenceForce, PointerScale),
                dvy |-> JsScaled(Num(turb.y), turbulenceForce, PointerScale)]
      ELSE [dvx |-> Num(0), dvy |-> Num(0)]

\* The gate forgets the initial animation.
AllowWhenEnabled(cfg, complete) == cfg.enableMouseInteraction

\* allowMouseInteraction
AllowMouseInteraction(cfg, complete) ==
  cfg.enableMouseInteraction /\ (complete \/ cfg.mouseInteractionDuringAnimation)

\* The pointer block with a given test on distSq: what it adds to the
\* velocity and the divisors it evaluates.  A comparison with a non-finite
\* number is false.
PointerBlock(pt, cfg, complete, m, turb, inRange) ==
  LET allowMouseInteraction == AllowMouseInteraction(cfg, complete)
      mouseRadius == cfg.mouseRadius * PointerScale
      dx == JsAdd(Num(m.x * PointerScale), JsNeg(pt.x))
      dy == JsAdd(Num(m.y * PointerScale), JsNeg(pt.y))
      distSq == JsAdd(JsScaled(dx, dx, 1), JsScaled(dy, dy, 1))
  IN  IF pt.masked \/ ~allowMouseInteraction
      THEN [NotEvaluated EXCEPT !.ran = TRUE]
      ELSE IF IsNaN(distSq) \/ ~inRange[Val(distSq) < mouseRadius * mouseRadius][Val(distSq) > 0]
      THEN [NotEvaluated EXCEPT !.ran = TRUE, !.distSq = distSq]
      ELSE LET dist == MathSqrt(Val(distSq))
               force == JsDiv(Num(mouseRadius - dist), Num(mouseRadius))
               nx == JsDiv(dx, Num(dist))
               ny == JsDiv(dy, Num(dist))
               d == PointerPush(cfg, nx, ny, force, turb)
           IN  [ran |-> TRUE, distSq |-> distSq, dvx |-> d.dvx, dvy |-> d.dvy,
                divisors |-> {mouseRadius, dist}]

\* A faulty test that lets a particle under the pointer through.
InRangeOrUnder == [within \in BOOLEAN |-> [positive \in BOOLEAN |-> within]]

\* distSq < mouseRadiusSq && distSq > 0
InRangeNotUnder == [within \in BOOLEAN |-> [positive \in BOOLEAN |-> within /\ positive]]

PointerForce(pt, cfg, complete, m, turb) ==
  PointerBlock(pt, cfg, complete, m, turb, InRangeNotUnder)

\* The pointer block, then the spring, friction and the move.
PointerPhysics(pt, cfg, ev) ==
  LET returnSpeed == Num(cfg.returnSpeed4 * cfg.particleSpeed)
      vx == JsScaled(JsAdd(JsAdd(pt.vx, ev.dvx),
                           JsScaled(JsAdd(Num(pt.originX), JsNeg(pt.x)), returnSpeed, 4)),
                     Num(cfg.friction4), 4)
      vy == JsScaled(JsAdd(JsAdd(pt.vy, ev.dvy),
                           JsScaled(JsAdd(Num(pt.originY), JsNeg(pt.y)), returnSpeed, 4)),
                     Num(cfg.friction4), 4)
  IN  [pt EXCEPT !.vx = vx, !.vy = vy, !.x = JsAdd(pt.x, vx), !.y = JsAdd(pt.y, vy)]

PointerConfigs ==
  [mouseRadius : {0, 2, 3}, mouseForce : {15},
   mouseInteractionMode : {"push", "pull", "orbit", "turbulence"},
   orbitSpeed10 : {15}, turbulenceIntensity10 : {15},
   enableMouseInteraction : BOOLEAN, mouseInteractionDuringAnimation : BOOLEAN,
   friction4 : {3}, returnSpeed4 : {1}, particleSpeed : {1}]

PointerPositions == {[x |-> x, y |-> y] : x \in 0..2, y \in 1..2}

InitPointer ==
  /\ pointerConfig \in PointerConfigs
  /\ pointerComplete \in BOOLEAN
  /\ pointerMouse \in PointerPositions \cup {MouseOff}
  /\ \E masked \in BOOLEAN : \E activated \in {TRUE, pointerComplete} :
       pointerParticle = [x |-> Num(PointerScale), y |-> Num(PointerScale),
                          originX |-> PointerScale, originY |-> PointerScale,
                          vx |-> Num(0), vy |-> Num(0), masked |-> masked,
                          activated |-> activated]
  /\ pointerEval = NotEvaluated
  /\ pointerTicks = 0
  /\ IdleExtract
  /\ IdleQuant
  /\ IdleSpring
  /\ IdleEngine
  /\ IdleExport
  /\ IdleExporter
  /\ IdleParse
  /\ IdleLoop
  /\ IdlePanel
  /\ IdleAct
  /\ IdleRest

\* One frame.  The sequential activation comes first: it may reach this
\* particle, and the last one (isAnimationComplete); a particle it has not
\* reached is skipped by the physics loop.
PointerFrame ==
  /\ pointerTicks < MaxPointerTicks
  /\ \E complete \in {TRUE, pointerComplete} :
     \E isActivated \in {TRUE, pointerParticle.activated \/ complete} :
     \E turb \in [x : TurbulenceValues, y : TurbulenceValues] :
       LET pt == [pointerParticle EXCEPT !.activated = isActivated]
           ev == PointerForce(pt, pointerConfig, complete, pointerMouse, turb)
       IN  /\ pointerComplete' = complete
           /\ pointerEval' = IF isActivated THEN ev ELSE NotEvaluated
           /\ pointerParticle' = IF isActivated THEN PointerPhysics(pt, pointerConfig, ev)
                                  ELSE pt
  /\ pointerTicks' = pointerTicks + 1
  /\ UNCHANGED <<pointerConfig, pointerMouse>>
  /\ UNCHANGED notPointer

PointerMove ==
  /\ \E m \in PointerPositions \ {pointerMouse} : pointerMouse' = m
  /\ UNCHANGED <<pointerConfig, pointerComplete, pointerParticle, pointerEval, pointerTicks>>
  /\ UNCHANGED notPointer

PointerLeave ==
  /\ pointerMouse # MouseOff
  /\ pointerMouse' = MouseOff
  /\ UNCHANGED <<pointerConfig, pointerComplete, pointerParticle, pointerEval, pointerTicks>>
  /\ UNCHANGED notPointer

NextPointer == PointerFrame \/ PointerMove \/ PointerLeave

SpecPointer == InitPointer /\ [][NextPointer]_vars

\* C14: in a frame with mouseRadius zero, or with the particle exactly
\* under the pointer (squared distance zero), the pointer block adds nothing
\* to the velocity and evaluates no division; and no frame at all divides
\* by zero.
C14_PointerSkipped ==
  pointerEval.ran =>
    /\ 0 \notin pointerEval.divisors
    /\ (pointerConfig.mouseRadius = 0 \/ pointerEval.distSq = Num(0)) =>
         /\ pointerEval.dvx = Num(0)
         /\ pointerEval.dvy = Num(0)
         /\ pointerEval.divisors = {}

\* A frame with the pointer force allowed, a positive radius and the
\* particle exactly under the pointer.
C14_Witness ==
  /\ pointerEval.ran
  /\ pointerEval.distSq = Num(0)
  /\ pointerConfig.mouseRadius > 0
  /\ pointerConfig.enableMouseInteraction
  /\ pointerComplete
  /\ ~pointerParticle.masked

\* The frame just taken adds no pointer force to the particle: the pointer
\* block adds nothing to its velocity and evaluates no division, and the
\* particle moves as the spring and friction alone move it, or not at all
\* when the physics loop skips it.
NoPointerForce ==
  LET pt == [pointerParticle EXCEPT !.activated = pointerParticle'.activated]
  IN  /\ pointerEval'.dvx = Num(0)
      /\ pointerEval'.dvy = Num(0)
      /\ pointerEval'.divisors = {}
      /\ pointerParticle' = IF pt.activated
                             THEN PointerPhysics(pt, pointerConfig, NotEvaluated)
                             ELSE pt

\* C22: in every tick, a masked particle and a pending particle receive no
\* pointer force; while the initial animation has not completed no particle
\* receives a pointer force unless mouseInteractionDuringAnimation is set;
\* and none ever does when mouse interaction is disabled.
C22_PointerForceGated ==
  [][(/\ PointerFrame
      /\ \/ pointerParticle'.masked
         \/ ~pointerParticle'.activated
         \/ ~pointerConfig.enableMouseInteraction
         \/ ~pointerComplete' /\ ~pointerConfig.mouseInteractionDuringAnimation)
       => NoPointerForce]_vars

\* A frame has run during the initial animation on an activated, unmasked
\* particle with mouse interaction enabled but not allowed during the
\* animation: the pointer block was skipped.
C22_Witness ==
  /\ pointerEval.ran
  /\ pointerEval.distSq = NaN
  /\ pointerConfig.enableMouseInteraction
  /\ ~pointerConfig.mouseInteractionDuringAnimation
  /\ pointerConfig.mouseRadius > 0
  /\ ~pointerComplete
  /\ pointerParticle.activated
  /\ ~pointerParticle.masked
  /\ pointerMouse \in PointerPositions


(***************************************************************************)
(* SpecParse: parseColorToRGB of ParticlePreview.tsx on one colour string. *)
(***************************************************************************)
StartsWith(s, prefix) == Len(s) >= Len(prefix) /\ SubSeq(s, 1, Len(prefix)) = prefix

White == <<Num(255), Num(255), Num(255)>>

parseColorToRGB(color) ==
  LET match == DigitRuns(color, 1, <<>>)
      hex == Slice(color, 1, Len(color))
  IN  IF StartsWith(color, <<"r", "g", "b">>) /\ match # <<>>
      THEN <<ParseMatch(match, 0), ParseMatch(match, 1), ParseMatch(match, 2)>>
      ELSE IF StartsWith(color, <<"#">>)
      THEN <<ParseIntHex(Slice(hex, 0, 2)), ParseIntHex(Slice(hex, 2, 4)),
             ParseIntHex(Slice(hex, 4, 6))>>
      ELSE White

ChannelValues == {0, 7, 255}

ColorArg(text, channels) == [text |-> text, channels |-> channels]

\* Well-formed "rgb(r,g,b)" strings with their channels.
RgbColors ==
  {ColorArg(RgbString(r, g, b), {<<Num(r), Num(g), Num(b)>>}) :
     r \in ChannelValues, g \in ChannelValues, b \in ChannelValues}

HexPairs == {<<"0", "0">>, <<"0", "7">>, <<"f", "F">>}

PairValue(pair) ==
  IF pair = <<"0", "0">> THEN 0 ELSE IF pair = <<"0", "7">> THEN 7 ELSE 255

\* Well-formed "#rrggbb" strings with their channels.
HexColors ==
  {ColorArg(<<"#">> \o r \o g \o b,
            {<<Num(PairValue(r)), Num(PairValue(g)), Num(PairValue(b))>>}) :
     r \in HexPairs, g \in HexPairs, b \in HexPairs}

\* "#" followed by fewer than six characters, or by six that are not all
\* hex digits.
BrokenHexColors ==
  {ColorArg(<<"#">> \o t, {}) :
     t \in UNION {[1..n -> {"0", "f"}] : n \in 0..5}
             \cup {<<"g", "g", "g", "g", "g", "g">>, <<"0", "0", "0", "0", "z", "z">>}}

\* "rgb" followed by fewer than three numbers.
BrokenRgbColors ==
  {ColorArg(<<"r", "g", "b">>, {}),
   ColorArg(<<"r", "g", "b", "(", ")">>, {}),
   ColorArg(<<"r", "g", "b", "(", "7", ")">>, {}),
   ColorArg(<<"r", "g", "b", "(", "7", ",", "2", "5", "5", ")">>, {})}

\* Strings that are neither.
OtherColors ==
  {ColorArg(<<>>, {}), ColorArg(<<"r", "e", "d">>, {}),
   ColorArg(<<"h", "s", "l", "(", "0", ",", "0", "%", ",", "0", "%", ")">>, {})}

ColorArgs == RgbColors \cup HexColors \cup BrokenHexColors \cup BrokenRgbColors \cup OtherColors

InitParse ==
  /\ rgbColor \in ColorArgs
  /\ rgbResult = [state |-> "pending", value |-> <<>>]
  /\ IdleExtract
  /\ IdleQuant
  /\ IdleSpring
  /\ IdleEngine
  /\ IdleExport
  /\ IdleExporter
  /\ IdlePointer
  /\ IdleLoop
  /\ IdlePanel
  /\ IdleAct
  /\ IdleRest

ParseColor ==
  /\ rgbResult.state = "pending"
  /\ rgbResult' = [state |-> "returned", value |-> parseColorToRGB(rgbColor.text)]
  /\ UNCHANGED rgbColor
  /\ UNCHANGED notParse

NextParse == ParseColor

SpecParse == InitParse /\ [][NextParse]_vars

\* C15: parseColorToRGB returns the channels of a well-formed "rgb(r,g,b)"
\* or "#rrggbb" string and white for every other string, and no channel it
\* returns is NaN.
C15_ChannelsOrWhite ==
  rgbResult.state = "returned" =>
    /\ rgbResult.value = (IF rgbColor.channels = {} THEN White ELSE Val(rgbColor.channels))
    /\ \A k \in 1..3 : ~IsNaN(rgbResult.value[k])


(***************************************************************************)
(* SpecLoop: the animation loop of one ParticlePreview instance: the setup *)
(* effect and its cleanup, the callbacks requestAnimationFrame holds, and  *)
(* animate with its frame skipping.  The particle array is its length      *)
(* loopCount and its first particle.                                       *)
(***************************************************************************)
FastFrameMs == 12

MaxAdaptiveSkip == 3

BaseSkipOneAbove == 10000

BaseSkipTwoAbove == 20000

LoopCounts == {0, 2, BaseSkipOneAbove + 1, BaseSkipTwoAbove + 1}

LoopFrameTimes == {8, FastFrameMs, 16, SlowFrameMs, 24}

LoopConfigs == {cfg \in SimConfigs : cfg.friction4 = 3 /\ cfg.particleSpeed = 1}

LoopImage == [width |-> 8, height |-> 8]

LoopOrigin == [x |-> 0, y |-> 4]

\* A faulty counter that is raised without a cap.
AdaptiveSkipUncapped(skip, frameTime) ==
  IF frameTime > SlowFrameMs THEN skip + 1
  ELSE IF frameTime < FastFrameMs /\ skip > 0 THEN skip - 1
  ELSE skip

\* if (frameTime > 20 && adaptiveSkip < 3) adaptiveSkip++;
\* else if (frameTime < 12 && adaptiveSkip > 0) adaptiveSkip--;
AdaptiveSkip(skip, frameTime) ==
  IF frameTime > SlowFrameMs /\ skip < MaxAdaptiveSkip THEN skip + 1
  ELSE IF frameTime < FastFrameMs /\ skip > 0 THEN skip - 1
  ELSE skip

BaseSkip(count) ==
  IF count > BaseSkipTwoAbove THEN 2 ELSE IF count > BaseSkipOneAbove THEN 1 ELSE 0

\* A faulty loop body that leaves the particles alone on a skipped frame.
TickPhysicsWhenRendered(pt, cfg, activated, shouldRender) ==
  IF activated > 0 /\ shouldRender THEN PhysicsStep(pt, cfg) ELSE pt

\* The physics loop, seen at the first particle: it runs before the test
\* of shouldRender.
TickPhysics(pt, cfg, activated, shouldRender) ==
  IF activated > 0 THEN PhysicsStep(pt, cfg) ELSE pt

\* A faulty cleanup that cancels nothing.
CancelNothing(pending, id) == pending

cancelAnimationFrame(pending, id) == {cb \in pending : cb.id # id}

requestAnimationFrame(pending, id, gen) == pending \cup {[id |-> id, gen |-> gen]}

\* The body of the setup effect: the canvas is resized (and so cleared),
\* initParticles runs and the first callback is requested.
RunSetupEffect(pending, cfg, data, refs) ==
  LET r == initParticles(cfg, data, refs)
  IN  /\ simConfig' = cfg
      /\ loopCount' = r.pCount
      /\ particlesActivated' = r.particlesActivated
      /\ particle' = IF data > 0 THEN NewParticle(LoopImage, cfg, LoopOrigin) ELSE particle
      /\ springTicks' = IF data > 0 THEN 0 ELSE springTicks
      /\ canvas' = BlankCanvas
      /\ effectGen' = effectGen + 1
      /\ rafPending' = requestAnimationFrame(pending, rafNextId, effectGen + 1)
      /\ animationRef' = rafNextId
      /\ rafNextId' = rafNextId + 1

\* The component just mounted, its setup effect run once.
InitLoop ==
  /\ mounted = TRUE
  /\ simConfig \in LoopConfigs
  /\ loopCount \in LoopCounts
  /\ particlesActivated = IF simConfig.enableInitialAnimation THEN 0 ELSE loopCount
  /\ particle = IF loopCount > 0 THEN NewParticle(LoopImage, simConfig, LoopOrigin)
                ELSE IdleParticle
  /\ springTicks = 0
  /\ canvas = BlankCanvas
  /\ effectGen = 1
  /\ rafPending = requestAnimationFrame({}, 1, 1)
  /\ animationRef = 1
  /\ rafNextId = 2
  /\ adaptiveSkip = 0
  /\ frameCount = 0
  /\ lastTick = NoTick
  /\ IdleExtract
  /\ IdleQuant
  /\ IdleEngine
  /\ IdleExport
  /\ IdleExporter
  /\ IdlePointer
  /\ IdleParse
  /\ IdlePanel
  /\ IdleAct
  /\ IdleRest

\* The browser runs a pending callback: one call of animate.
LoopTick ==
  /\ frameCount < MaxFrames
  /\ springTicks < MaxTicks
  /\ \E cb \in rafPending : \E frameTime \in LoopFrameTimes :
     \E due \in {particlesActivated, Min(particlesActivated + 1, loopCount), loopCount} :
       LET skip == AdaptiveSkip(adaptiveSkip, frameTime)
           skipFrames == Max(BaseSkip(loopCount), skip)
           shouldRender == (frameCount + 1) % (skipFrames + 1) = 0
           activated == IF simConfig.enableInitialAnimation /\ particlesActivated < loopCount
                        THEN Min(due, loopCount) ELSE particlesActivated
       IN  /\ adaptiveSkip' = skip
           /\ frameCount' = frameCount + 1
           /\ particlesActivated' = activated
           /\ particle' = TickPhysics(particle, simConfig, activated, shouldRender)
           /\ springTicks' = IF activated > 0 THEN springTicks + 1 ELSE springTicks
           /\ canvas' = IF shouldRender THEN [frame |-> frameCount + 1, drawn |-> activated]
                        ELSE canvas
           /\ rafPending' = requestAnimationFrame(rafPending \ {cb}, rafNextId, cb.gen)
           /\ animationRef' = rafNextId
           /\ rafNextId' = rafNextId + 1
           /\ lastTick' = [ticked |-> TRUE, gen |-> cb.gen, effect |-> effectGen,
                           frameTime |-> frameTime, before |-> adaptiveSkip,
                           after |-> skip, count |-> loopCount, skipFrames |-> skipFrames,
                           rendered |-> shouldRender, stepped |-> activated]
  /\ UNCHANGED <<mounted, simConfig, effectGen, loopCount>>
  /\ UNCHANGED notLoop

\* The image or the configuration changes: the cleanup of the setup effect,
\* then the effect again.
LoopRerun ==
  /\ mounted
  /\ effectGen < MaxGens
  /\ \E cfg \in LoopConfigs : \E data \in LoopCounts :
       RunSetupEffect(cancelAnimationFrame(rafPending, animationRef), cfg, data,
                      [pCount |-> loopCount, particlesActivated |-> particlesActivated])
  /\ UNCHANGED <<mounted, adaptiveSkip, frameCount, lastTick>>
  /\ UNCHANGED notLoop

\* The Replay button.
LoopReplay ==
  /\ mounted
  /\ simConfig.enableInitialAnimation
  /\ loopCount > 0
  /\ particlesActivated' = 0
  /\ particle' = NewParticle(LoopImage, simConfig, LoopOrigin)
  /\ springTicks' = 0
  /\ UNCHANGED <<simConfig, loopVars>>
  /\ UNCHANGED notLoop

\* The component unmounts: the cleanup of the setup effect.
LoopUnmount ==
  /\ mounted
  /\ mounted' = FALSE
  /\ rafPending' = cancelAnimationFrame(rafPending, animationRef)
  /\ UNCHANGED <<rafNextId, animationRef, effectGen, adaptiveSkip, frameCount, loopCount,
                 canvas, lastTick>>
  /\ UNCHANGED springVars
  /\ UNCHANGED notLoop

\* The component mounts again, with fresh refs and a fresh canvas.
LoopMount ==
  /\ ~mounted
  /\ effectGen < MaxGens
  /\ mounted' = TRUE
  /\ adaptiveSkip' = 0
  /\ frameCount' = 0
  /\ lastTick' = NoTick
  /\ \E cfg \in LoopConfigs : \E data \in LoopCounts :
       RunSetupEffect(rafPending, cfg, data, [pCount |-> 0, particlesActivated |-> 0])
  /\ UNCHANGED notLoop

NextLoop == LoopTick \/ LoopRerun \/ LoopReplay \/ LoopUnmount \/ LoopMount

SpecLoop == InitLoop /\ [][NextLoop]_vars

\* C16: at every moment at most one animation callback is pending; it is
\* the one animationRef names and it belongs to the setup effect that ran
\* last; while mounted there is exactly one, so every tick, rendered or
\* skipped, has scheduled its one successor; and every tick that ran
\* belonged to the setup effect current at that time.
C16_OnePendingCallback ==
  /\ Cardinality(rafPending) <= 1
  /\ mounted => Cardinality(rafPending) = 1
  /\ \A cb \in rafPending : mounted /\ cb.id = animationRef /\ cb.gen = effectGen
  /\ lastTick.ticked => lastTick.gen = lastTick.effect

\* A skipped tick of the loop that a re-run of the setup effect started.
C16_Witness ==
  /\ lastTick.ticked
  /\ ~lastTick.rendered
  /\ lastTick.gen >= 2
  /\ effectGen = lastTick.gen
  /\ Cardinality(rafPending) = 1


\* C19: a tick whose frame count is not a multiple of skipFrames + 1 moves
\* the active particles exactly as the physics step of any tick does, leaves
\* the canvas as it was, and schedules the next tick.
C19_SkippedTickStillSimulates ==
  [][(frameCount' = frameCount + 1 /\ frameCount' % (lastTick'.skipFrames + 1) # 0) =>
       /\ particle' = (IF particlesActivated' > 0 THEN PhysicsStep(particle, simConfig)
                       ELSE particle)
       /\ lastTick'.stepped = particlesActivated'
       /\ canvas' = canvas
       /\ \E cb \in rafPending' : cb \notin rafPending /\ cb.id = animationRef']_vars

\* A skipped tick has moved an active particle that is on its way.
C19_Witness ==
  /\ lastTick.ticked
  /\ ~lastTick.rendered
  /\ lastTick.stepped > 0
  /\ particle.vx # 0
  /\ canvas.frame < frameCount

\* C20: the adaptive skip counter stays in 0..3: a tick with frameTime > 20
\* raises it by one unless it is 3, a tick with frameTime < 12 lowers it by
\* one unless it is 0, any other tick leaves it; and the effective skip of a
\* tick is the larger of the counter and the baseline, which is 1 above
\* 10,000 particles and 2 above 20,000.
C20_SkipCounterBounded ==
  /\ adaptiveSkip \in 0..3
  /\ lastTick.ticked =>
       /\ lastTick.after =
            (IF lastTick.frameTime > 20
             THEN (IF lastTick.before = 3 THEN 3 ELSE lastTick.before + 1)
             ELSE IF lastTick.frameTime < 12
             THEN (IF lastTick.before = 0 THEN 0 ELSE lastTick.before - 1)
             ELSE lastTick.before)
       /\ lastTick.after = adaptiveSkip
       /\ lastTick.skipFrames =
            Max(lastTick.after,
                IF lastTick.count > 20000 THEN 2 ELSE IF lastTick.count > 10000 THEN 1 ELSE 0)

\* A slow tick with the counter already at 3, on a large particle set.
C20_Witness ==
  /\ lastTick.ticked
  /\ lastTick.before = 3
  /\ lastTick.frameTime > 20
  /\ adaptiveSkip = 3
  /\ lastTick.count > 10000


(***************************************************************************)
(* SpecPanel: the control panel and the configuration state of the page.   *)
(* Fractions are whole numbers of the slider's unit: friction in           *)
(* hundredths, returnSpeed in thousandths, particleSpeed and               *)
(* bounceIntensity in tenths.                                              *)
(***************************************************************************)
PanelFields == {"resolution", "maxParticles", "friction100", "returnSpeed1000",
                "mouseForce", "particleSpeed10", "bounceIntensity10"}

\* The min and max of the sliders.
SliderRange ==
  [resolution |-> [min |-> 1, max |-> 20],
   maxParticles |-> [min |-> 1000, max |-> 50000],
   friction100 |-> [min |-> 20, max |-> 98],
   returnSpeed1000 |-> [min |-> 1, max |-> 300],
   mouseForce |-> [min |-> 5, max |-> 30],
   particleSpeed10 |-> [min |-> 5, max |-> 30],
   bounceIntensity10 |-> [min |-> 5, max |-> 20]]

panelDefaultConfig ==
  [resolution |-> 5, maxParticles |-> 10000, friction100 |-> 92, returnSpeed1000 |-> 80,
   mouseForce |-> 15, particleSpeed10 |-> 10, bounceIntensity10 |-> 10]

\* The numeric fields of the built-in presets.
PRESETS ==
  [default |-> <<>>,
   high_quality |-> [resolution |-> 2, maxParticles |-> 100000],
   performance |-> [resolution |-> 6, maxParticles |-> 20000],
   dreamy |-> [friction100 |-> 92, returnSpeed1000 |-> 20],
   connected |-> [resolution |-> 5],
   explosive |-> [particleSpeed10 |-> 30, friction100 |-> 85, bounceIntensity10 |-> 20],
   gentle_float |-> [friction100 |-> 95, returnSpeed1000 |-> 10],
   turbulence_field |-> [friction100 |-> 90, returnSpeed1000 |-> 30],
   velocity_glow |-> [friction100 |-> 88, mouseForce |-> 20],
   hue_shift |-> [friction100 |-> 90, mouseForce |-> 15],
   stars |-> [resolution |-> 8]]

\* handleConfigChange: setConfig(prev => ({ ...prev, ...newConfig }))
handleConfigChange(prev, newConfig) ==
  [f \in DOMAIN prev |-> IF f \in DOMAIN newConfig THEN newConfig[f] ELSE prev[f]]

\* applyPreset: "default" resets, another name merges its preset.
applyPreset(prev, presetName) ==
  IF presetName = "default" THEN panelDefaultConfig
  ELSE handleConfigChange(prev, PRESETS[presetName])

\* Parsed configuration files: one the panel exported, and hand-edited ones.
ImportedFiles ==
  {panelDefaultConfig,
   [resolution |-> 3, maxParticles |-> 20000],
   [friction100 |-> 50],
   [maxParticles |-> 500]}

InitPanel ==
  /\ panelConfig = panelDefaultConfig
  /\ panelLast = "none"
  /\ IdleExtract
  /\ IdleQuant
  /\ IdleSpring
  /\ IdleEngine
  /\ IdleExport
  /\ IdleExporter
  /\ IdlePointer
  /\ IdleParse
  /\ IdleLoop
  /\ IdleAct
  /\ IdleRest

\* A slider is dragged: the range input yields a value within min..max.
SliderChange ==
  /\ \E f \in PanelFields :
     \E v \in {SliderRange[f].min, SliderRange[f].max} :
       panelConfig' = handleConfigChange(panelConfig, [g \in {f} |-> v])
  /\ panelLast' = "slider"
  /\ UNCHANGED notPanel

ApplyPreset ==
  /\ \E presetName \in DOMAIN PRESETS :
       /\ panelConfig' = applyPreset(panelConfig, presetName)
       /\ panelLast' = presetName
  /\ UNCHANGED notPanel

\* importConfig: the parsed file goes to onChange as it is; a file that
\* does not parse changes nothing.
ImportConfig ==
  /\ \/ \E imported \in ImportedFiles :
          panelConfig' = handleConfigChange(panelConfig, imported)
     \/ UNCHANGED panelConfig
  /\ panelLast' = "import"
  /\ UNCHANGED notPanel

\* handleReset
ResetPanel ==
  /\ panelConfig' = panelDefaultConfig
  /\ panelLast' = "reset"
  /\ UNCHANGED notPanel

NextPanel == SliderChange \/ ApplyPreset \/ ImportConfig \/ ResetPanel

SpecPanel == InitPanel /\ [][NextPanel]_vars

\* C17: after any sequence of slider changes, presets, imports and resets
\* every numeric field of the configuration lies within the range of its
\* slider (maxParticles within 1000..50000, and so on).
C17_FieldsWithinRange ==
  \A f \in PanelFields :
    /\ panelConfig[f] >= SliderRange[f].min
    /\ panelConfig[f] <= SliderRange[f].max


(***************************************************************************)
(* SpecActivate: the activation count of the preview over its frames,      *)
(* re-runs of the setup effect and replays.  The clock counts whole time   *)
(* units; particlesPerSecond2 is the number of particles per two units.    *)
(***************************************************************************)
ActCounts == {0, MaxCount, MaxCount + 1}

ActConfigs == [enableInitialAnimation : BOOLEAN, particlesPerSecond2 : {1, 2, 4}]

\* Math.min(Math.floor(elapsed * particlesPerSecond), pCount), when the
\* animation is enabled and not complete.
ActivatedAt(cfg, activated, count, elapsed) ==
  IF cfg.enableInitialAnimation /\ activated < count
  THEN Min((elapsed * cfg.particlesPerSecond2) \div 2, count)
  ELSE activated

\* initParticles and resetAnimation: [particles, activated, start, life]
ActInitParticles(cfg, data, now, refs) ==
  IF data = 0 THEN refs
  ELSE [particles |-> data,
        activated |-> IF cfg.enableInitialAnimation THEN 0 ELSE data,
        start |-> IF cfg.enableInitialAnimation THEN now ELSE refs.start,
        life |-> NewLife(IF cfg.enableInitialAnimation THEN 0 ELSE data)]

ActRefs == [particles |-> actParticles, activated |-> actActivated, start |-> actStart,
            life |-> actLife]

SetActRefs(r) ==
  /\ actParticles' = r.particles
  /\ actActivated' = r.activated
  /\ actStart' = r.start
  /\ actLife' = r.life

InitActivate ==
  /\ actConfig \in ActConfigs
  /\ actData \in ActCounts
  /\ actNow = 0
  /\ \E r \in {ActInitParticles(actConfig, actData, 0,
                                [particles |-> 0, activated |-> 0, start |-> 0,
                                 life |-> NewLife(0)])} :
       /\ actParticles = r.particles
       /\ actActivated = r.activated
       /\ actStart = r.start
       /\ actLife = r.life
  /\ IdleExtract
  /\ IdleQuant
  /\ IdleSpring
  /\ IdleEngine
  /\ IdleExport
  /\ IdleExporter
  /\ IdlePointer
  /\ IdleParse
  /\ IdleLoop
  /\ IdlePanel
  /\ IdleRest

\* One call of animate: the activation count, then the physics loop and the
\* drawing loop over the indices below it.
ActFrame ==
  /\ actNow < MaxClock
  /\ \E dt \in 1..2 :
       LET now == actNow + dt
           activated == ActivatedAt(actConfig, actActivated, actParticles, now - actStart)
       IN  /\ actNow' = now
           /\ actActivated' = activated
           /\ actLife' = [ticks |-> actLife.ticks + 1,
                          previous |-> actActivated,
                          ever |-> actLife.ever \cup (1..actActivated),
                          integrated |-> {i \in 1..actParticles : i <= activated},
                          animated |-> actConfig.enableInitialAnimation]
  /\ UNCHANGED <<actConfig, actData, actParticles, actStart>>
  /\ UNCHANGED notAct

\* The image or the configuration changes: the setup effect runs again and
\* calls initParticles.
ActRerun ==
  /\ \E cfg \in ActConfigs : \E data \in ActCounts :
       /\ <<cfg, data>> # <<actConfig, actData>>
       /\ actConfig' = cfg
       /\ actData' = data
       /\ SetActRefs(ActInitParticles(cfg, data, actNow, ActRefs))
  /\ UNCHANGED actNow
  /\ UNCHANGED notAct

\* The Replay button, shown while the initial animation is enabled.
ActReplay ==
  /\ actConfig.enableInitialAnimation
  /\ SetActRefs(ActInitParticles(actConfig, actData, actNow, ActRefs))
  /\ UNCHANGED <<actConfig, actData, actNow>>
  /\ UNCHANGED notAct

NextActivate == ActFrame \/ ActRerun \/ ActReplay

SpecActivate == InitActivate /\ [][NextActivate]_vars

\* C18: within one lifetime the activation count never decreases and never
\* exceeds the particle count; the particles integrated and drawn by a frame
\* are exactly the first `count` entries, so a particle that was active
\* stays active; and a frame run with the initial animation disabled
\* integrates every particle.
C18_ActivationMonotone ==
  /\ actActivated <= actParticles
  /\ actActivated >= actLife.previous
  /\ actLife.ever \subseteq 1..actActivated
  /\ actLife.ticks > 0 => actLife.integrated = 1..actActivated
  /\ (actLife.ticks > 0 /\ ~actLife.animated) => actLife.integrated = 1..actParticles


(***************************************************************************)
(* SpecConnections: the connection lines animate draws in one frame.  The  *)
(* particles stand still here: a frame advances the sequential activation  *)
(* and draws a segment for each pair the two loops find close enough.      *)
(* Indices are those of the source, from 0.                                *)
(***************************************************************************)
ConnectionWindow == 50

\* Three particles, or enough of them to have a neighbour 50 places on.
ConnCounts == {0, 3, MaxConnected}

\* All particles on one spot; on a line, one pixel apart; on two spots.
ConnLayouts(n) ==
  {[i \in 1..n |-> [x |-> 0, y |-> 0]],
   [i \in 1..n |-> [x |-> i, y |-> 0]],
   [i \in 1..n |-> [x |-> 3 * (i % 2), y |-> 0]]}

ConnConfigs == [enableConnections : BOOLEAN, connectionDistance : {0, 2}]

ConnDistSq(p1, p2) == (p1.x - p2.x) * (p1.x - p2.x) + (p1.y - p2.y) * (p1.y - p2.y)

\* The pairs (i, j) the two loops visit.
VisitedPairs(len) ==
  {pair \in (0..(len - 1)) \X (0..(len - 1)) :
     pair[2] >= pair[1] + 1 /\ pair[2] < Min(pair[1] + ConnectionWindow, len)}

\* The segments of one frame: moveTo(p1), lineTo(p2) for each visited pair
\* with distSq < connDistSq.
DrawConnections(ps, activated, cfg) ==
  IF cfg.enableConnections
  THEN LET activeParticles == SubSeq(ps, 1, activated)
           connDistSq == cfg.connectionDistance * cfg.connectionDistance
       IN  {pair \in VisitedPairs(Len(activeParticles)) :
              ConnDistSq(activeParticles[pair[1] + 1], activeParticles[pair[2] + 1])
                < connDistSq}
  ELSE {}

InitConnections ==
  /\ connConfig \in ConnConfigs
  /\ \E n \in ConnCounts :
       /\ connParticles \in ConnLayouts(n)
       /\ connActivated \in {0, n}
  /\ connDrawn = {}
  /\ connTicked = FALSE
  /\ IdleButConn

\* One rendered frame: the activation count grows to what is due, then the
\* connections are drawn.
ConnFrame ==
  /\ \E due \in {connActivated, Min(connActivated + 1, Len(connParticles)),
                  Len(connParticles)} :
       /\ connActivated' = due
       /\ connDrawn' = DrawConnections(connParticles, due, connConfig)
  /\ connTicked' = TRUE
  /\ UNCHANGED <<connConfig, connParticles>>
  /\ UNCHANGED notConn

\* ControlPanel: the connections checkbox or the distance slider.
ConnChangeConfig ==
  /\ \E next \in ConnConfigs \ {connConfig} : connConfig' = next
  /\ UNCHANGED <<connParticles, connActivated, connDrawn, connTicked>>
  /\ UNCHANGED notConn

NextConnections == ConnFrame \/ ConnChangeConfig

SpecConnections == InitConnections /\ [][NextConnections]_vars

\* The pairs of active particles at most 50 places apart in the array.
NextFiftyPairs(activated) ==
  {pair \in (0..(activated - 1)) \X (0..(activated - 1)) :
     pair[1] < pair[2] /\ pair[2] <= pair[1] + 50}

\* C23 (as claimed): when connections are enabled, each active particle at
\* index i is compared with exactly the next 50 active particles in array
\* order (indices i+1 .. i+50, fewer only at the end of the array), and a
\* segment is drawn for each such pair closer than connectionDistance;
\* pairs further apart in index, and pending particles, are never
\* connected.
C23_NextFiftyCompared ==
  [][(ConnFrame /\ connConfig.enableConnections) =>
       connDrawn' =
         {pair \in NextFiftyPairs(connActivated') :
            ConnDistSq(connParticles[pair[1] + 1], connParticles[pair[2] + 1])
              < connConfig.connectionDistance * connConfig.connectionDistance}]_vars


(***************************************************************************)
(* SpecRainbow: the display colour of the activated particles, frame by    *)
(* frame, as ParticlePreview.tsx computes it and as the component written  *)
(* by generateHelperFunctions computes it.  A hue is a whole number of     *)
(* 1/HueScale turns, a velocity a whole number of pixels per frame and     *)
(* the intensity a whole number, so that velocity * intensity * 0.02 is a  *)
(* whole number of hue units.                                              *)
(***************************************************************************)
HueScale == 300

\* velocity * intensity * 0.02, in hue units
HueAdvance(velocity, intensity) == velocity * intensity * (HueScale \div 50)

\* hue2rgb(0, 1, t) * 255, rounded: the channel of a fully saturated colour
\* of lightness 0.5 (q = 1, p = 0).
Hue2Rgb(t) ==
  LET u == IF t < 0 THEN t + HueScale ELSE IF t > HueScale THEN t - HueScale ELSE t
  IN  IF 6 * u < HueScale THEN RoundDiv(255 * 6 * u, HueScale)
      ELSE IF 2 * u < HueScale THEN 255
      ELSE IF 3 * u < 2 * HueScale THEN RoundDiv(255 * 6 * (2 * HueScale - 3 * u), 3 * HueScale)
      ELSE 0

\* `rgb(${nr},${ng},${nb})` of hslToRgb(hueOffset, 1, 0.5)
HueColor(h) ==
  RgbString(Hue2Rgb(h + HueScale \div 3), Hue2Rgb(h), Hue2Rgb(h - HueScale \div 3))

\* The cases of the switch in ParticlePreview.tsx's shiftColorByVelocity.
LiveSwitchCases == {"brighten", "darken", "hue-shift", "saturation"}

\* ParticlePreview.tsx, shiftColorByVelocity, for a mode its switch has no
\* case for: the default branch returns color.
LiveShiftColor(color, velocity, intensity, mode) ==
  CASE mode \notin LiveSwitchCases -> color

\* The exported shiftColorByVelocity in rainbow mode, called with the
\* particle as particleRef: the colour, and the entry of particleHueOffsets.
\* A stored offset of 0 is falsy and replaced by Math.random().
ExportShiftColor(color, velocity, intensity, mode, stored, rnd) ==
  CASE mode = "rainbow" ->
    IF velocity < 1 THEN [color |-> color, offset |-> stored]
    ELSE LET start == IF stored = {} \/ stored = {0} THEN rnd ELSE Val(stored)
             hueOffset == (start + HueAdvance(velocity, intensity)) % HueScale
         IN  [color |-> HueColor(hueOffset), offset |-> {hueOffset}]

\* Values of Math.random(), in hue units.
HueRandoms == {0, 7, HueScale - 6}

HueVelocities == {0, 1, 2}

HueConfigs ==
  [enableVelocityColor : BOOLEAN, velocityColorMode : {"rainbow"},
   velocityColorIntensity : {1, 2}]

\* Two particles: an indigo one and a pure red one.
HueParticleColors == <<RgbString(99, 102, 241), RgbString(255, 0, 0)>>

InitRainbow ==
  /\ hueConfig \in HueConfigs
  /\ hueColors = HueParticleColors
  /\ hueVelocity = [i \in 1..Len(hueColors) |-> 0]
  /\ particleHueOffsets = [i \in 1..Len(hueColors) |-> {}]
  /\ liveDisplay = hueColors
  /\ exportDisplay = hueColors
  /\ hueFrames = 0
  /\ IdleButHue

\* One frame of both: the physics has left each particle a velocity, and
\* the draw loop computes displayColor for each.
RainbowFrame ==
  /\ hueFrames < MaxHueFrames
  /\ \E vel \in [1..Len(hueColors) -> HueVelocities] :
     \E rnd \in [1..Len(hueColors) -> HueRandoms] :
       LET shifted == [i \in 1..Len(hueColors) |->
                         ExportShiftColor(hueColors[i], vel[i],
                                          hueConfig.velocityColorIntensity,
                                          hueConfig.velocityColorMode,
                                          particleHueOffsets[i], rnd[i])]
       IN  /\ hueVelocity' = vel
           /\ liveDisplay' =
                [i \in 1..Len(hueColors) |->
                   IF hueConfig.enableVelocityColor
                   THEN LiveShiftColor(hueColors[i], vel[i],
                                       hueConfig.velocityColorIntensity,
                                       hueConfig.velocityColorMode)
                   ELSE hueColors[i]]
           /\ exportDisplay' =
                [i \in 1..Len(hueColors) |->
                   IF hueConfig.enableVelocityColor THEN shifted[i].color
                   ELSE hueColors[i]]
           /\ particleHueOffsets' =
                [i \in 1..Len(hueColors) |->
                   IF hueConfig.enableVelocityColor THEN shifted[i].offset
                   ELSE particleHueOffsets[i]]
  /\ hueFrames' = hueFrames + 1
  /\ UNCHANGED <<hueConfig, hueColors>>
  /\ UNCHANGED notHue

\* ControlPanel: the velocity colour checkbox or the intensity slider.  The
\* exported component is generated from the configuration of the moment.
HueChangeConfig ==
  /\ \E next \in HueConfigs \ {hueConfig} : hueConfig' = next
  /\ UNCHANGED <<hueColors, hueVelocity, particleHueOffsets, liveDisplay, exportDisplay,
                 hueFrames>>
  /\ UNCHANGED notHue

NextRainbow == RainbowFrame \/ HueChangeConfig

SpecRainbow == InitRainbow /\ [][NextRainbow]_vars

\* The hue offsets a particle may hold after a frame in which it moved with
\* velocity v: its own kept offset advanced by v * intensity * 0.02 (mod 1),
\* or any start advanced so when it holds none yet.
AdvancedOffsets(kept, v) ==
  {(start + HueAdvance(v, hueConfig.velocityColorIntensity)) % HueScale :
     start \in IF kept = {} THEN 0..(HueScale - 1) ELSE kept}

\* The exported component in a rainbow frame: each moving particle is drawn
\* in the colour of its own advanced hue offset, which it keeps.
ExportFollowsOwnHue ==
  \A i \in 1..Len(hueColors) :
    hueVelocity'[i] >= 1 =>
      /\ particleHueOffsets'[i] \subseteq AdvancedOffsets(particleHueOffsets[i], hueVelocity'[i])
      /\ particleHueOffsets'[i] # {}
      /\ exportDisplay'[i] = HueColor(Val(particleHueOffsets'[i]))

\* The preview in a rainbow frame: each moving particle is drawn in the
\* colour of a hue offset.
LiveFollowsOwnHue ==
  \A i \in 1..Len(hueColors) :
    hueVelocity'[i] >= 1 => \E h \in 0..(HueScale - 1) : liveDisplay'[i] = HueColor(h)

RainbowStep ==
  RainbowFrame /\ hueConfig.enableVelocityColor /\ hueConfig.velocityColorMode = "rainbow"

\* C24 (as claimed): with velocity colour enabled in rainbow mode,
\* shiftColorByVelocity gives each moving particle a display colour taken
\* from that particle's own hue offset, which advances by
\* velocity*intensity*0.02 (mod 1) on each frame and is kept between frames
\* per particle; this holds in the live preview and in the exported code.
C24_RainbowPerParticleHue ==
  [][RainbowStep => (ExportFollowsOwnHue /\ LiveFollowsOwnHue)]_vars

\* The same for the exported component alone.
ExportRainbowPerParticleHue == [][RainbowStep => ExportFollowsOwnHue]_vars

\* The same for the preview alone.
LiveRainbowPerParticleHue == [][RainbowStep => LiveFollowsOwnHue]_vars


(***************************************************************************)
(* SpecRebuild: page.tsx holds the image and the configuration; each       *)
(* change of either renders ParticlePreview with new props, and the hooks  *)
(* of the preview decide from their dependency lists whether the setup     *)
(* effect runs again and calls initParticles.  The particle array is its   *)
(* length rbCount and its first particle.                                  *)
(***************************************************************************)
\* The fields extractParticleData reads from the configuration.
SamplingFields == {"resolution"}

\* The fields in the dependency list of initParticles.
InitParticlesFields == {"enableInitialAnimation"}

\* Fields only animate reads.
MotionFields == {"friction4"}

RebuildConfigs ==
  [resolution : {1, 2}, maxParticles : {100}, enableInitialAnimation : BOOLEAN,
   friction4 : {1, 3}, returnSpeed4 : {1}, particleSpeed : {1},
   enableMouseInteraction : {FALSE}, enableIdleAnimation : {FALSE},
   enableBounce : {FALSE}, autoPerformance : {{}}, particleShape : {{}}]

\* Two 8 x 8 images, and an image with no opaque pixel.
RebuildImages ==
  {[id |-> 1, width |-> 8, height |-> 8, count |-> 4],
   [id |-> 2, width |-> 8, height |-> 8, count |-> 4],
   [id |-> 3, width |-> 8, height |-> 8, count |-> 0]}

\* particleData.length: the candidates of the image thinned by the stride
\* and capped by maxParticles.
RebuildDataCount(img, cfg) == Min(img.count \div (cfg.resolution * cfg.resolution),
                                  cfg.maxParticles)

\* The origin of the first particle: the first sampled pixel.
RebuildOrigin(cfg) == [x |-> cfg.resolution \div 2, y |-> cfg.resolution \div 2]

\* useMemo(..., [imageData, config, maskData, optionalMasks, particleEdits]):
\* particleData is a new array when a dependency is another object.
ParticleDataRecomputed(imageChanged, configChanged) == imageChanged \/ configChanged

\* useCallback(..., [particleData, config.particleSize, config.minParticleSize,
\* config.sizeVariation, config.enableInitialAnimation,
\* config.shootingDirection, imageData, resetAnimation])
InitParticlesRecreated(imageChanged, configChanged, cfg, next) ==
  \/ ParticleDataRecomputed(imageChanged, configChanged)
  \/ \E f \in InitParticlesFields : cfg[f] # next[f]
  \/ imageChanged

\* useCallback(..., [config])
AnimateRecreated(configChanged) == configChanged

\* useEffect(..., [initParticles, animate, imageData])
SetupEffectRuns(imageChanged, configChanged, cfg, next) ==
  \/ InitParticlesRecreated(imageChanged, configChanged, cfg, next)
  \/ AnimateRecreated(configChanged)
  \/ imageChanged

\* initParticles on the new props: nothing on an empty particleData, else a
\* new array at rest.
RebuildInit(img, cfg, op) ==
  LET data == RebuildDataCount(img, cfg)
      r == initParticles(cfg, data, [pCount |-> rbCount, particlesActivated |-> rbActivated])
  IN  /\ rbCount' = r.pCount
      /\ rbActivated' = r.particlesActivated
      /\ rbParticle' = IF data > 0 THEN NewParticle(img, cfg, RebuildOrigin(cfg))
                       ELSE rbParticle
      /\ rbTicks' = IF data > 0 THEN 0 ELSE rbTicks
      /\ rbLast' = [op |-> op, rebuilt |-> data > 0]

\* A render of the preview with the props img and next.
RebuildRender(img, next, configChanged, op) ==
  /\ rbImage' = img
  /\ rbConfig' = next
  /\ IF SetupEffectRuns(img # rbImage, configChanged, rbConfig, next)
     THEN RebuildInit(img, next, op)
     ELSE /\ rbLast' = [op |-> op, rebuilt |-> FALSE]
          /\ UNCHANGED <<rbCount, rbActivated, rbParticle, rbTicks>>

\* The first image is loaded and the preview mounts.
InitRebuild ==
  /\ rbImage \in RebuildImages
  /\ rbConfig \in {cfg \in RebuildConfigs : cfg.friction4 = 3}
  /\ rbCount = RebuildDataCount(rbImage, rbConfig)
  /\ rbActivated = IF rbConfig.enableInitialAnimation THEN 0 ELSE rbCount
  /\ rbParticle = IF rbCount > 0 THEN NewParticle(rbImage, rbConfig, RebuildOrigin(rbConfig))
                  ELSE IdleParticle
  /\ rbTicks = 0
  /\ rbLast = [op |-> "mount", rebuilt |-> rbCount > 0]
  /\ IdleButRebuild

\* One frame: the activation advances and the activated particles move.
RebuildFrame ==
  /\ rbTicks < MaxTicks
  /\ \E due \in {rbActivated, rbCount} :
       LET activated == IF rbConfig.enableInitialAnimation /\ rbActivated < rbCount
                        THEN due ELSE rbActivated
       IN  /\ rbActivated' = activated
           /\ rbParticle' = IF activated > 0 THEN PhysicsStep(rbParticle, rbConfig)
                            ELSE rbParticle
           /\ rbTicks' = IF activated > 0 THEN rbTicks + 1 ELSE rbTicks
  /\ rbLast' = [op |-> "frame", rebuilt |-> FALSE]
  /\ UNCHANGED <<rbImage, rbConfig, rbCount>>
  /\ UNCHANGED notRebuild

\* handleConfigChange: setConfig(prev => ({...prev, ...newConfig})), for one
\* control of the panel; config is a new object.
RebuildChangeConfig ==
  /\ \E f \in SamplingFields \cup InitParticlesFields \cup MotionFields :
     \E next \in RebuildConfigs :
       /\ next[f] # rbConfig[f]
       /\ \A g \in (DOMAIN next) \ {f} : next[g] = rbConfig[g]
       /\ RebuildRender(rbImage, next, TRUE, f)
  /\ UNCHANGED notRebuild

\* handleImageLoad
RebuildNewImage ==
  /\ \E img \in RebuildImages \ {rbImage} : RebuildRender(img, rbConfig, FALSE, "image")
  /\ UNCHANGED notRebuild

\* The Replay Animation button: initParticles.
RebuildReplay ==
  /\ rbConfig.enableInitialAnimation
  /\ RebuildInit(rbImage, rbConfig, "replay")
  /\ UNCHANGED <<rbImage, rbConfig>>
  /\ UNCHANGED notRebuild

NextRebuild == RebuildFrame \/ RebuildChangeConfig \/ RebuildNewImage \/ RebuildReplay

SpecRebuild == InitRebuild /\ [][NextRebuild]_vars

\* The step leaves the particle array as it was: its length, its
\* activation count and the live position and velocity of its particle.
LiveStateKept ==
  rbParticle' = rbParticle /\ rbCount' = rbCount /\ rbActivated' = rbActivated

\* C26 (as claimed): the runtime particle array is rebuilt (live positions
\* and velocities discarded) only on an image change, a configuration
\* change that affects sampling, or an explicit reset/replay; changing a
\* configuration field that does not affect sampling (for example friction)
\* leaves every particle's live position and velocity as they were.
C26_RebuiltOnlyOnSamplingChange ==
  [][/\ rbLast'.rebuilt => rbLast'.op \in {"image", "replay"} \cup SamplingFields
     /\ (RebuildChangeConfig /\ \A f \in SamplingFields : rbConfig'[f] = rbConfig[f])
          => LiveStateKept]_vars

\* The same for the friction slider alone.
FrictionKeepsLiveState ==
  [][(RebuildChangeConfig /\ rbConfig'.friction4 # rbConfig.friction4) => LiveStateKept]_vars


(***************************************************************************)
(* SpecAuth: middleware.ts answers one request after another.  A header    *)
(* is a string; atob and btoa are computed on the six characters the       *)
(* credentials of the model are written in.                                *)
(***************************************************************************)
Base64Alphabet ==
  <<"A", "B", "C", "D", "E", "F", "G", "H", "I", "J", "K", "L", "M", "N", "O", "P",
    "Q", "R", "S", "T", "U", "V", "W", "X", "Y", "Z", "a", "b", "c", "d", "e", "f",
    "g", "h", "i", "j", "k", "l", "m", "n", "o", "p", "q", "r", "s", "t", "u", "v",
    "w", "x", "y", "z", "0", "1", "2", "3", "4", "5", "6", "7", "8", "9", "+", "/">>

Base64Value(c) == (CHOOSE i \in 1..64 : Base64Alphabet[i] = c) - 1

IsBase64(c) == \E i \in 1..64 : Base64Alphabet[i] = c

\* The characters of the model and their codes.
CredentialChars == <<":", "a", "b", "c", "u", "v">>

CredentialCodes == <<58, 97, 98, 99, 117, 118>>

CharCode(c) == CredentialCodes[CHOOSE i \in 1..6 : CredentialChars[i] = c]

\* String.fromCharCode, "?" standing for every other character.
FromCharCode(n) ==
  IF \E i \in 1..6 : CredentialCodes[i] = n
  THEN CredentialChars[CHOOSE i \in 1..6 : CredentialCodes[i] = n]
  ELSE "?"

Sextets(n, count) ==
  [i \in 1..count |-> Base64Alphabet[((n \div Pow2(6 * (count - i))) % 64) + 1]]

\* btoa
RECURSIVE Btoa(_)
Btoa(str) ==
  IF Len(str) = 0 THEN <<>>
  ELSE IF Len(str) = 1 THEN Sextets(CharCode(str[1]) * 16, 2) \o <<"=", "=">>
  ELSE IF Len(str) = 2
  THEN Sextets((CharCode(str[1]) * 256 + CharCode(str[2])) * 4, 3) \o <<"=">>
  ELSE Sextets(CharCode(str[1]) * 65536 + CharCode(str[2]) * 256 + CharCode(str[3]), 4)
       \o Btoa(SubSeq(str, 4, Len(str)))

\* The data of a base64 text: without the padding a text whose length is a
\* multiple of 4 may end in.
Unpadded(text) ==
  IF Len(text) % 4 = 0 /\ Len(text) >= 2 /\ text[Len(text)] = "="
  THEN (IF text[Len(text) - 1] = "=" THEN SubSeq(text, 1, Len(text) - 2)
        ELSE SubSeq(text, 1, Len(text) - 1))
  ELSE text

RECURSIVE DecodeSextets(_)
DecodeSextets(data) ==
  LET v(i) == Base64Value(data[i])
  IN  IF Len(data) < 2 THEN <<>>
      ELSE IF Len(data) = 2 THEN <<FromCharCode((v(1) * 64 + v(2)) \div 16)>>
      ELSE IF Len(data) = 3
      THEN LET n == (v(1) * 4096 + v(2) * 64 + v(3)) \div 4
           IN  <<FromCharCode(n \div 256), FromCharCode(n % 256)>>
      ELSE LET n == v(1) * 262144 + v(2) * 4096 + v(3) * 64 + v(4)
           IN  <<FromCharCode(n \div 65536), FromCharCode((n \div 256) % 256),
                 FromCharCode(n % 256)>>
               \o DecodeSextets(SubSeq(data, 5, Len(data)))

\* atob: throws on a character outside the alphabet and on a length of
\* 1 modulo 4.
Atob(text) ==
  LET data == Unpadded(text)
  IN  IF (\E i \in 1..Len(data) : ~IsBase64(data[i])) \/ Len(data) % 4 = 1
      THEN [state |-> "threw", value |-> <<>>]
      ELSE [state |-> "returned", value |-> DecodeSextets(data)]

\* str.split(sep) for a separator of one character.
RECURSIVE Split(_, _)
Split(str, sep) ==
  IF \E i \in 1..Len(str) : str[i] = sep
  THEN LET first == CHOOSE i \in 1..Len(str) :
                      str[i] = sep /\ \A j \in 1..(i - 1) : str[j] # sep
       IN  <<SubSeq(str, 1, first - 1)>> \o Split(SubSeq(str, first + 1, Len(str)), sep)
  ELSE <<str>>

\* const [a, b] = parts: an element the array lacks is undefined.
Element(parts, i) == IF i <= Len(parts) THEN {parts[i]} ELSE {}

Next200 == [status |-> 200, headers |-> {}]

AuthenticationRequired ==
  [status |-> 401, headers |-> {<<"WWW-Authenticate", "Basic realm=\"Particle Generator\"">>}]

\* const [username, password] = decoded.split(":")
CredentialsPassword(decoded) == Element(Split(decoded, ":"), 2)

\* middleware
middleware(password, header) ==
  IF password = {} \/ password = {<<>>} THEN Next200
  ELSE IF header = {} \/ header = {<<>>} THEN AuthenticationRequired
  ELSE LET parts == Split(Val(header), " ")
           type == Element(parts, 1)
           credentials == Element(parts, 2)
       IN  IF type = {<<"B", "a", "s", "i", "c">>} /\ credentials \notin {{}, {<<>>}}
           THEN LET decoded == Atob(Val(credentials))
                IN  IF decoded.state = "returned"
                       /\ CredentialsPassword(decoded.value) = password
                    THEN Next200
                    ELSE AuthenticationRequired
           ELSE AuthenticationRequired

AuthUsers == {<<>>, <<"u">>, <<"v">>}

AuthWords == {<<"a">>, <<"b">>, <<"a", ":", "b">>, <<"a", ":", "c">>, <<":">>}

\* AUTH_PASSWORD: not set, or a word.
AuthPasswords == {{}} \cup {{w} : w \in AuthWords}

\* What a client sends: nothing, Basic credentials "username:password",
\* credentials without a colon, credentials that are not base64, the scheme
\* alone, or another scheme.
AuthClients ==
  {[kind |-> "none"], [kind |-> "bearer"], [kind |-> "schemeOnly"],
   [kind |-> "undecodable"], [kind |-> "tooShort"]}
  \cup {[kind |-> "nocolon", user |-> u] : u \in AuthUsers \ {<<>>}}
  \cup {[kind |-> "basic", user |-> u, password |-> w] : u \in AuthUsers, w \in AuthWords \cup {<<>>}}

BasicText == <<"B", "a", "s", "i", "c">>

HeaderOf(client) ==
  CASE client.kind = "none" -> {}
    [] client.kind = "bearer" -> {<<"B", "e", "a", "r", "e", "r", " ", "a">>}
    [] client.kind = "schemeOnly" -> {BasicText}
    [] client.kind = "undecodable" -> {BasicText \o <<" ", "!", "a", "b", "c">>}
    [] client.kind = "tooShort" -> {BasicText \o <<" ", "Y">>}
    [] client.kind = "nocolon" -> {BasicText \o <<" ">> \o Btoa(client.user)}
    [] client.kind = "basic" ->
         {BasicText \o <<" ">> \o Btoa(client.user \o <<":">> \o client.password)}

InitAuth ==
  /\ authPassword \in AuthPasswords
  /\ authSent = [kind |-> "none"]
  /\ authHeader = {}
  /\ authResponse = [status |-> 0, headers |-> {}]
  /\ IdleButAuth

\* A request arrives and is answered.
AuthRequest ==
  /\ \E client \in AuthClients :
       /\ authSent' = client
       /\ authHeader' = HeaderOf(client)
       /\ authResponse' = middleware(authPassword, HeaderOf(client))
  /\ UNCHANGED authPassword
  /\ UNCHANGED notAuth

NextAuth == AuthRequest

SpecAuth == InitAuth /\ [][NextAuth]_vars

\* C28 (as claimed): the password gate lets a request through if and only
\* if no AUTH_PASSWORD is configured, or the request carries a Basic
\* Authorization header whose decoded credentials are
\* "<any username>:<password>" with <password> equal to AUTH_PASSWORD (for
\* every configured password, also one that contains a colon); every other
\* request, including one with undecodable credentials, gets a 401 response
\* with a WWW-Authenticate Basic challenge.
C28_PasswordGate ==
  authResponse.status # 0 =>
    IF authPassword = {} \/ (authSent.kind = "basic" /\ {authSent.password} = authPassword)
    THEN authResponse = Next200
    ELSE authResponse = AuthenticationRequired

\* The same for passwords without a colon, sent or configured.
PasswordGateWithoutColon ==
  (/\ \A w \in authPassword : ":" \notin {w[i] : i \in 1..Len(w)}
   /\ authSent.kind = "basic" =>
        ":" \notin {authSent.password[i] : i \in 1..Len(authSent.password)})
    => C28_PasswordGate

\* btoa and atob are inverse on the credentials of the model.
Base64RoundTrip ==
  \A client \in AuthClients :
    client.kind = "basic" =>
      Atob(Btoa(client.user \o <<":">> \o client.password)) =
        [state |-> "returned", value |-> client.user \o <<":">> \o client.password]


(***************************************************************************)
(* SpecManager: the user adds, removes, selects and renames optional       *)
(* masks.  Names and slugs are strings of characters.                      *)
(***************************************************************************)
MaxMasks == 3

MaxMaskIds == 4

LowerLetters ==
  <<"a", "b", "c", "d", "e", "f", "g", "h", "i", "j", "k", "l", "m",
    "n", "o", "p", "q", "r", "s", "t", "u", "v", "w", "x", "y", "z">>

UpperLetters ==
  <<"A", "B", "C", "D", "E", "F", "G", "H", "I", "J", "K", "L", "M",
    "N", "O", "P", "Q", "R", "S", "T", "U", "V", "W", "X", "Y", "Z">>

\* name.toLowerCase()
ToLowerCase(str) ==
  [i \in 1..Len(str) |->
     IF \E k \in 1..26 : UpperLetters[k] = str[i]
     THEN LowerLetters[CHOOSE k \in 1..26 : UpperLetters[k] = str[i]]
     ELSE str[i]]

\* [a-z0-9]
IsSlugChar(c) == (\E k \in 1..26 : LowerLetters[k] = c) \/ IsDigit(c)

\* .replace(/[^a-z0-9]+/g, "-")
RECURSIVE ReplaceRuns(_)
ReplaceRuns(str) ==
  IF Len(str) = 0 THEN <<>>
  ELSE IF IsSlugChar(str[1]) THEN <<str[1]>> \o ReplaceRuns(Tail(str))
  ELSE IF Len(str) >= 2 /\ ~IsSlugChar(str[2]) THEN ReplaceRuns(Tail(str))
  ELSE <<"-">> \o ReplaceRuns(Tail(str))

\* .replace(/^-|-$/g, "")
TrimHyphens(str) ==
  LET from == IF Len(str) >= 1 /\ str[1] = "-" THEN 2 ELSE 1
      to == IF Len(str) >= from /\ str[Len(str)] = "-" THEN Len(str) - 1 ELSE Len(str)
  IN  SubSeq(str, from, to)

slugify(name) ==
  LET slug == TrimHyphens(ReplaceRuns(ToLowerCase(name)))
  IN  IF slug = <<>> THEN <<"m", "a", "s", "k">> ELSE slug

\* What the user types in the name input.
EditNames ==
  {<<"M", "a", "s", "k", " ", "1">>, <<"m", "a", "s", "k", "-", "2">>,
   <<" ", "L", "o", "g", "o", "!", "!">>, <<"?">>}

ManagerIds == {managerMasks[k].id : k \in 1..Len(managerMasks)}

\* addMask; generateId is taken to return an id it has not returned before.
AddMask ==
  /\ Len(managerMasks) < MaxMasks
  /\ idsGenerated < MaxMaskIds
  /\ LET newIndex == Len(managerMasks) + 1
         newMask == [id |-> idsGenerated + 1,
                     slug |-> <<"m", "a", "s", "k", "-">> \o NumberToString(newIndex),
                     name |-> <<"M", "a", "s", "k", " ">> \o NumberToString(newIndex)]
     IN  /\ managerMasks' = Append(managerMasks, newMask)
         /\ managerActive' = {newMask.id}
  /\ idsGenerated' = idsGenerated + 1
  /\ UNCHANGED <<editingId, editName>>
  /\ UNCHANGED notManager

\* removeMask(id): the button of a row that is not being renamed.
RemoveMask ==
  /\ \E id \in ManagerIds \ editingId :
       LET newMasks == SelectSeq(managerMasks, LAMBDA m : m.id # id)
       IN  /\ managerMasks' = newMasks
           /\ managerActive' =
                IF managerActive = {id}
                THEN (IF Len(newMasks) > 0 THEN {newMasks[1].id} ELSE {})
                ELSE managerActive
  /\ UNCHANGED <<editingId, editName, idsGenerated>>
  /\ UNCHANGED notManager

\* A click on a row: onActiveMaskChange(mask.id).
SelectMask ==
  /\ \E id \in ManagerIds : managerActive' = {id}
  /\ UNCHANGED <<managerMasks, editingId, editName, idsGenerated>>
  /\ UNCHANGED notManager

\* startEditing(mask)
StartEditing ==
  /\ \E k \in 1..Len(managerMasks) :
       /\ {managerMasks[k].id} # editingId
       /\ editingId' = {managerMasks[k].id}
       /\ editName' = managerMasks[k].name
  /\ UNCHANGED <<managerMasks, managerActive, idsGenerated>>
  /\ UNCHANGED notManager

\* The name input's onChange: setEditName(e.target.value).
TypeName ==
  /\ editingId \subseteq ManagerIds
  /\ editingId # {}
  /\ \E name \in EditNames : editName' = name
  /\ UNCHANGED <<managerMasks, managerActive, editingId, idsGenerated>>
  /\ UNCHANGED notManager

\* saveEdit(mask.id): Enter or the check button of the row being renamed.
SaveEdit ==
  /\ \E id \in editingId \cap ManagerIds :
       managerMasks' =
         [k \in 1..Len(managerMasks) |->
            IF managerMasks[k].id = id
            THEN [managerMasks[k] EXCEPT !.name = editName, !.slug = slugify(editName)]
            ELSE managerMasks[k]]
  /\ editingId' = {}
  /\ UNCHANGED <<managerActive, editName, idsGenerated>>
  /\ UNCHANGED notManager

\* cancelEdit
CancelEdit ==
  /\ editingId \cap ManagerIds # {}
  /\ editingId' = {}
  /\ editName' = <<>>
  /\ UNCHANGED <<managerMasks, managerActive, idsGenerated>>
  /\ UNCHANGED notManager

InitManager ==
  /\ managerMasks = <<>>
  /\ managerActive = {}
  /\ editingId = {}
  /\ editName = <<>>
  /\ idsGenerated = 0
  /\ IdleButManager

NextManager ==
  \/ AddMask
  \/ RemoveMask
  \/ SelectMask
  \/ StartEditing
  \/ TypeName
  \/ SaveEdit
  \/ CancelEdit

SpecManager == InitManager /\ [][NextManager]_vars

\* C29 (as claimed): after any sequence of add-mask, remove-mask and rename
\* operations in the optional-mask manager, no two optional masks in the
\* list have the same slug, so the slugs written on extracted particles
\* identify one mask each.
C29_SlugsDistinct ==
  \A i, j \in 1..Len(managerMasks) :
    i # j => managerMasks[i].slug # managerMasks[j].slug

\* The ids of the masks of the list are distinct.
ManagerIdsDistinct ==
  \A i, j \in 1..Len(managerMasks) :
    i # j => managerMasks[i].id # managerMasks[j].id

\* slugify on the names of the model.
SlugifyExamples ==
  /\ slugify(<<"M", "a", "s", "k", " ", "1">>) = <<"m", "a", "s", "k", "-", "1">>
  /\ slugify(<<" ", "L", "o", "g", "o", "!", "!">>) = <<"l", "o", "g", "o">>
  /\ slugify(<<"?">>) = <<"m", "a", "s", "k">>
  /\ slugify(<<>>) = <<"m", "a", "s", "k">>


(***************************************************************************)
(* SpecUndo: strokes, clears, switches between the interaction mask and    *)
(* the optional mask, and undos in the masking tool.  The canvas has one   *)
(* pixel, so a bitmap is "white" (unmasked) or "black" (masked).           *)
(***************************************************************************)
MAX_HISTORY == 20

MaxSwitches == 2

MaxClears == 1

Bitmaps == {"white", "black"}

\* The optional masks of the list; the interaction mask is written 0.
PaintedIds == {1}

InteractionMask == 0

\* The mask the tool edits: isEditingOptionalMask && activeMaskId.
EditedMask ==
  IF isEditingOptionalMask /\ activeMaskId # {} THEN Val(activeMaskId) ELSE InteractionMask

\* The content of a mask: {} for an optional mask that was never painted.
ContentOf(mask) == IF mask = InteractionMask THEN {maskCanvas} ELSE paintedMasks[mask]

\* What a mask shows: a mask without data is unmasked everywhere, as a
\* white one.
BitmapOf(mask) == IF ContentOf(mask) = {} THEN "white" ELSE Val(ContentOf(mask))

\* saveToHistory: the snapshot of the edited mask, if it has data, is
\* pushed, and the oldest snapshot is dropped beyond MAX_HISTORY.
Pushed(hist, snapshot) ==
  IF Len(hist) + 1 > MAX_HISTORY THEN Tail(Append(hist, snapshot)) ELSE Append(hist, snapshot)

saveToHistory ==
  LET currentData == ContentOf(EditedMask)
  IN  IF currentData # {}
      THEN /\ history' = Pushed(history, Val(currentData))
           /\ historyFrom' = Pushed(historyFrom, EditedMask)
           /\ canUndo' = TRUE
      ELSE UNCHANGED <<history, historyFrom, canUndo>>

\* onOptionalMaskChange(activeMaskId, data) or the canvas and onMaskChange.
WriteEdited(data) ==
  IF EditedMask = InteractionMask
  THEN /\ maskCanvas' = data
       /\ UNCHANGED paintedMasks
  ELSE /\ paintedMasks' = [paintedMasks EXCEPT ![EditedMask] = {data}]
       /\ UNCHANGED maskCanvas

\* drawMask on the one pixel: black with the draw tool, white with erase.
DrawnBitmap == IF toolMode = "draw" THEN "black" ELSE "white"

\* handleMouseDown with the left button: a stroke begins.
Stroke ==
  /\ saveToHistory
  /\ WriteEdited(DrawnBitmap)
  /\ lastBefore' = [lastBefore EXCEPT ![EditedMask] = {BitmapOf(EditedMask)}]
  /\ UNCHANGED <<isEditingOptionalMask, activeMaskId, toolMode, undoBudget>>
  /\ UNCHANGED notUndo

\* clearMask
ClearMask ==
  /\ undoBudget.clears < MaxClears
  /\ saveToHistory
  /\ WriteEdited("white")
  /\ lastBefore' = [lastBefore EXCEPT ![EditedMask] = {BitmapOf(EditedMask)}]
  /\ undoBudget' = [undoBudget EXCEPT !.clears = @ + 1]
  /\ UNCHANGED <<isEditingOptionalMask, activeMaskId, toolMode>>
  /\ UNCHANGED notUndo

\* undo: the button or Ctrl+Z.
Undo ==
  /\ IF Len(history) = 0
     THEN UNCHANGED <<maskCanvas, paintedMasks, history, historyFrom, canUndo, lastBefore>>
     ELSE /\ history' = SubSeq(history, 1, Len(history) - 1)
          /\ historyFrom' = SubSeq(historyFrom, 1, Len(historyFrom) - 1)
          /\ canUndo' = (Len(history) - 1 > 0)
          /\ WriteEdited(history[Len(history)])
          /\ lastBefore' = [lastBefore EXCEPT ![EditedMask] = {}]
  /\ UNCHANGED <<isEditingOptionalMask, activeMaskId, toolMode, undoBudget>>
  /\ UNCHANGED notUndo

\* The mask type toggle: setIsEditingOptionalMask.
SetIsEditingOptionalMask ==
  /\ undoBudget.switches < MaxSwitches
  /\ isEditingOptionalMask' = ~isEditingOptionalMask
  /\ undoBudget' = [undoBudget EXCEPT !.switches = @ + 1]
  /\ UNCHANGED <<maskCanvas, paintedMasks, activeMaskId, toolMode, history, historyFrom,
                 canUndo, lastBefore>>
  /\ UNCHANGED notUndo

InitUndo ==
  /\ maskCanvas \in Bitmaps
  /\ paintedMasks \in [PaintedIds -> {{}} \cup {{b} : b \in Bitmaps}]
  /\ isEditingOptionalMask = FALSE
  /\ activeMaskId \in {{}} \cup {{id} : id \in PaintedIds}
  /\ toolMode \in {"draw", "erase"}
  /\ history = <<>>
  /\ canUndo = FALSE
  /\ historyFrom = <<>>
  /\ lastBefore = [mask \in PaintedIds \cup {InteractionMask} |-> {}]
  /\ undoBudget = [switches |-> 0, clears |-> 0]
  /\ IdleButUndo

NextUndo ==
  \/ Stroke
  \/ ClearMask
  \/ Undo
  \/ SetIsEditingOptionalMask

SpecUndo == InitUndo /\ [][NextUndo]_vars

\* An undo that finds a snapshot.
UndoStep == Undo /\ Len(history) > 0

\* C30 (as claimed): after any sequence of strokes, clears, switches between
\* the interaction mask and optional masks, and undos in the masking tool,
\* an undo replaces the content of the mask currently being edited with
\* that same mask's content from just before its most recent stroke or
\* clear; a snapshot taken from one mask is never written into another
\* mask, and the history never holds more than 20 snapshots.
C30_UndoRestoresEditedMask ==
  [][/\ UndoStep =>
          /\ historyFrom[Len(historyFrom)] = EditedMask
          /\ lastBefore[EditedMask] # {} =>
               BitmapOf(EditedMask)' = Val(lastBefore[EditedMask])
     /\ Len(history') <= 20]_vars

\* The parts of C30, one by one.
SnapshotStaysInItsMask ==
  [][UndoStep => historyFrom[Len(historyFrom)] = EditedMask]_vars

UndoRestoresBeforeLatest ==
  [][(UndoStep /\ lastBefore[EditedMask] # {})
       => BitmapOf(EditedMask)' = Val(lastBefore[EditedMask])]_vars

HistoryBounded == Len(history) <= 20 /\ canUndo = (Len(history) > 0)

HistoryFull == Len(history) = 20

\* Without a switch the undo does as claimed.
UndoWithinOneMask ==
  [][(UndoStep /\ undoBudget.switches = 0)
       => /\ historyFrom[Len(historyFrom)] = EditedMask
          /\ lastBefore[EditedMask] # {} =>
               BitmapOf(EditedMask)' = Val(lastBefore[EditedMask])]_vars
====
